---- MODULE Spec2Model ----
(***************************************************************************)
(* Model of the steel front end: the scanner (Lexer), the token stream     *)
(* adapter (TokenStream) of crates/steel-parser/src/lexer.rs and the tree  *)
(* assembler (Parser) of src/parser.rs.                                    *)
(*                                                                         *)
(* A character is one of Chars: an ASCII character written as a one-       *)
(* element string, or a character of CodePoints written by its code point  *)
(* ("U+03BB"), whose number the table gives.  The operators on characters  *)
(* are computed from the code point and are defined on Chars only.  A      *)
(* buffer is a sequence of characters; byte offsets are computed from      *)
(* len_utf8.                                                               *)
(***************************************************************************)
EXTENDS Integers, Sequences, FiniteSets, TLC

VARIABLES source, lexer, skip_comments, emitted, status,
          tokenizer, cursor, pc, stack, current_frame, results

vars == <<source, lexer, skip_comments, emitted, status,
          tokenizer, cursor, pc, stack, current_frame, results>>

lexvars == <<source, lexer, skip_comments, emitted, status>>
parvars == <<tokenizer, cursor, pc, stack, current_frame, results>>

(***************************************************************************)
(* Characters                                                              *)
(***************************************************************************)
\* U+03BB GREEK SMALL LETTER LAMDA: two bytes in UTF-8, not numeric.
Lambda == "U+03BB"
\* U+0663 ARABIC-INDIC DIGIT THREE: two bytes in UTF-8, char::is_numeric.
ArabicThree == "U+0663"
\* U+10D40 GARAY DIGIT ZERO (Unicode 16.0): four bytes in UTF-8, char::is_numeric.
GarayDigitZero == "U+10D40"
\* U+0060 GRAVE ACCENT, named because the character cannot be written in a
\* string of this module
Backtick == "U+0060"
\* U+000B LINE TABULATION, named for the same reason
VerticalTab == "U+000B"
\* U+00A0 NO-BREAK SPACE: two bytes in UTF-8
NoBreakSpace == "U+00A0"
\* U+3000 IDEOGRAPHIC SPACE: three bytes in UTF-8
IdeographicSpace == "U+3000"
\* Peekable::peek() == None; not a character
NoChar == "EOF"

AsciiDigits == {"0", "1", "2", "3", "4", "5", "6", "7", "8", "9"}

\* the ASCII characters written as themselves
AsciiChars ==
    {" ", "!", "\"", "#", "$", "%", "&", "'", "(", ")", "*", "+", ",", "-",
     ".", "/", "0", "1", "2", "3", "4", "5", "6", "7", "8", "9", ":", ";",
     "<", "=", ">", "?", "@", "A", "B", "C", "D", "E", "F", "G", "H", "I",
     "J", "K", "L", "M", "N", "O", "P", "Q", "R", "S", "T", "U", "V", "W",
     "X", "Y", "Z", "[", "\\", "]", "^", "_", "a", "b", "c", "d", "e", "f",
     "g", "h", "i", "j", "k", "l", "m", "n", "o", "p", "q", "r", "s", "t",
     "u", "v", "w", "x", "y", "z", "{", "|", "}", "~", "\t", "\n", "\f",
     "\r"}

\* the characters written by name, each with its code point
CodePoints ==
    {<<Backtick, 96>>, <<VerticalTab, 11>>, <<"U+0085", 133>>,
     <<NoBreakSpace, 160>>, <<"U+00B2", 178>>, <<"U+00BD", 189>>,
     <<"U+00E9", 233>>, <<Lambda, 955>>, <<"U+0660", 1632>>,
     <<ArabicThree, 1635>>, <<"U+0664", 1636>>, <<"U+1680", 5760>>,
     <<"U+2000", 8192>>, <<"U+2001", 8193>>, <<"U+2002", 8194>>,
     <<"U+2003", 8195>>, <<"U+2004", 8196>>, <<"U+2005", 8197>>,
     <<"U+2006", 8198>>, <<"U+2007", 8199>>, <<"U+2008", 8200>>,
     <<"U+2009", 8201>>, <<"U+200A", 8202>>, <<"U+2028", 8232>>,
     <<"U+2029", 8233>>, <<"U+202F", 8239>>, <<"U+205F", 8287>>,
     <<"U+20AC", 8364>>, <<"U+2167", 8551>>, <<IdeographicSpace, 12288>>,
     <<"U+FF13", 65299>>, <<GarayDigitZero, 68928>>,
     <<"U+1F600", 128512>>}

\* the characters of the model; the operators on characters are defined on
\* these and on nothing else
Chars == AsciiChars \cup {p[1] : p \in CodePoints}

\* c as u32
CodePoint(c) == (CHOOSE p \in CodePoints : p[1] = c)[2]

\* the code points of the Unicode property White_Space
WhiteSpace ==
    (9..13) \cup {32, 133, 160, 5760} \cup (8192..8202)
        \cup {8232, 8233, 8239, 8287, 12288}

\* the code points of the Unicode general categories Nd, Nl and No, as
\* ranges <<first, last>>
Numeric ==
    {<<48, 57>>, <<178, 179>>, <<185, 185>>, <<188, 190>>, <<1632, 1641>>,
     <<1776, 1785>>, <<1984, 1993>>, <<2406, 2415>>, <<2534, 2543>>,
     <<2548, 2553>>, <<2662, 2671>>, <<2790, 2799>>, <<2918, 2927>>,
     <<2930, 2935>>, <<3046, 3058>>, <<3174, 3183>>, <<3192, 3198>>,
     <<3302, 3311>>, <<3416, 3422>>, <<3430, 3448>>, <<3558, 3567>>,
     <<3664, 3673>>, <<3792, 3801>>, <<3872, 3891>>, <<4160, 4169>>,
     <<4240, 4249>>, <<4969, 4988>>, <<5870, 5872>>, <<6112, 6121>>,
     <<6128, 6137>>, <<6160, 6169>>, <<6470, 6479>>, <<6608, 6618>>,
     <<6784, 6793>>, <<6800, 6809>>, <<6992, 7001>>, <<7088, 7097>>,
     <<7232, 7241>>, <<7248, 7257>>, <<8304, 8304>>, <<8308, 8313>>,
     <<8320, 8329>>, <<8528, 8578>>, <<8581, 8585>>, <<9312, 9371>>,
     <<9450, 9471>>, <<10102, 10131>>, <<11517, 11517>>, <<12295, 12295>>,
     <<12321, 12329>>, <<12344, 12346>>, <<12690, 12693>>,
     <<12832, 12841>>, <<12872, 12879>>, <<12881, 12895>>,
     <<12928, 12937>>, <<12977, 12991>>, <<42528, 42537>>,
     <<42726, 42735>>, <<43056, 43061>>, <<43216, 43225>>,
     <<43264, 43273>>, <<43472, 43481>>, <<43504, 43513>>,
     <<43600, 43609>>, <<44016, 44025>>, <<65296, 65305>>,
     <<65799, 65843>>, <<65856, 65912>>, <<65930, 65931>>,
     <<66273, 66299>>, <<66336, 66339>>, <<66369, 66369>>,
     <<66378, 66378>>, <<66513, 66517>>, <<66720, 66729>>,
     <<67672, 67679>>, <<67705, 67711>>, <<67751, 67759>>,
     <<67835, 67839>>, <<67862, 67867>>, <<68028, 68029>>,
     <<68032, 68047>>, <<68050, 68095>>, <<68160, 68168>>,
     <<68221, 68222>>, <<68253, 68255>>, <<68331, 68335>>,
     <<68440, 68447>>, <<68472, 68479>>, <<68521, 68527>>,
     <<68858, 68863>>, <<68912, 68921>>, <<68928, 68937>>,
     <<69216, 69246>>, <<69405, 69414>>, <<69457, 69460>>,
     <<69573, 69579>>, <<69714, 69743>>, <<69872, 69881>>,
     <<69942, 69951>>, <<70096, 70105>>, <<70113, 70132>>,
     <<70384, 70393>>, <<70736, 70745>>, <<70864, 70873>>,
     <<71248, 71257>>, <<71360, 71369>>, <<71376, 71395>>,
     <<71472, 71483>>, <<71904, 71922>>, <<72016, 72025>>,
     <<72688, 72697>>, <<72784, 72812>>, <<73040, 73049>>,
     <<73120, 73129>>, <<73184, 73193>>, <<73552, 73561>>,
     <<73664, 73684>>, <<74752, 74862>>, <<90416, 90425>>,
     <<92768, 92777>>, <<92864, 92873>>, <<93008, 93017>>,
     <<93019, 93025>>, <<93552, 93561>>, <<93824, 93846>>,
     <<94196, 94198>>, <<118000, 118009>>, <<119488, 119507>>,
     <<119520, 119539>>, <<119648, 119672>>, <<120782, 120831>>,
     <<123200, 123209>>, <<123632, 123641>>, <<124144, 124153>>,
     <<124401, 124410>>, <<125127, 125135>>, <<125264, 125273>>,
     <<126065, 126123>>, <<126125, 126127>>, <<126129, 126132>>,
     <<126209, 126253>>, <<126255, 126269>>, <<127232, 127244>>,
     <<130032, 130041>>}

is_whitespace(c) ==
    IF c \in AsciiChars THEN c \in {" ", "\t", "\n", "\f", "\r"}
    ELSE CodePoint(c) \in WhiteSpace

is_numeric(c) ==
    IF c \in AsciiChars THEN c \in AsciiDigits
    ELSE \E r \in Numeric : r[1] <= CodePoint(c) /\ CodePoint(c) <= r[2]

\* the length of the UTF-8 encoding of a code point
utf8_len(cp) ==
    IF cp < 128 THEN 1
    ELSE IF cp < 2048 THEN 2
    ELSE IF cp < 65536 THEN 3
    ELSE 4

len_utf8(c) == IF c \in AsciiChars THEN 1 ELSE utf8_len(CodePoint(c))

(***************************************************************************)
(* Byte offsets and slicing                                                *)
(***************************************************************************)
RECURSIVE ByteOffset(_, _)
\* byte offset of the k-th character boundary of src (k characters before it)
ByteOffset(src, k) == IF k = 0 THEN 0 ELSE ByteOffset(src, k - 1) + len_utf8(src[k])

IsCharBoundary(src, b) == \E k \in 0..Len(src) : ByteOffset(src, k) = b

CharIndex(src, b) == CHOOSE k \in 0..Len(src) : ByteOffset(src, k) = b

\* the value of a failed Option::unwrap in slice()
SliceFault == <<"PANIC">>

\* str::get(range): None unless start <= end and both are char boundaries
StrGet(src, s, e) ==
    IF s <= e /\ IsCharBoundary(src, s) /\ IsCharBoundary(src, e)
    THEN SubSeq(src, CharIndex(src, s) + 1, CharIndex(src, e))
    ELSE SliceFault

\* a span counted in characters instead of bytes
span_in_chars(st) == <<st.token_start, st.pos>>

span(st) == <<st.token_start, st.token_end>>

slice(src, st) == StrGet(src, st.token_start, st.token_end)

(***************************************************************************)
(* Lexer: cursor primitives                                                *)
(***************************************************************************)
\* Lexer::new
LexerNew == [pos |-> 0, token_start |-> 0, token_end |-> 0]

peek(src, st) == IF st.pos < Len(src) THEN src[st.pos + 1] ELSE NoChar

eat(src, st) ==
    IF st.pos < Len(src)
    THEN [st EXCEPT !.pos = @ + 1, !.token_end = @ + len_utf8(src[st.pos + 1])]
    ELSE st

RECURSIVE consume_whitespace_spaces(_, _)
\* only the space character skipped
consume_whitespace_spaces(src, st) ==
    LET c == peek(src, st) IN
    IF c = " "
    THEN LET s1 == eat(src, st) IN
         consume_whitespace_spaces(src, [s1 EXCEPT !.token_start = s1.token_end])
    ELSE st

RECURSIVE consume_whitespace(_, _)
consume_whitespace(src, st) ==
    LET c == peek(src, st) IN
    IF c # NoChar /\ is_whitespace(c)
    THEN LET s1 == eat(src, st) IN
         consume_whitespace(src, [s1 EXCEPT !.token_start = s1.token_end])
    ELSE st

RECURSIVE read_rest_of_line(_, _)
read_rest_of_line(src, st) ==
    LET c == peek(src, st) IN
    IF c = NoChar THEN st
    ELSE IF c = "\n" THEN eat(src, st)
    ELSE read_rest_of_line(src, eat(src, st))

(***************************************************************************)
(* Results of a scanner step                                               *)
(*   out = "Ok"    : a token type ty with payload val                      *)
(*   out = "Err"   : a TokenError ty                                       *)
(*   out = "None"  : end of input                                          *)
(*   out = "Panic" : a failed unwrap(), the process terminates             *)
(***************************************************************************)
Ok(st, ty, val) == [st |-> st, out |-> "Ok", ty |-> ty, val |-> val]
Err(st, e) == [st |-> st, out |-> "Err", ty |-> e, val |-> <<>>]
Panic(st) == [st |-> st, out |-> "Panic", ty |-> "Panic", val |-> <<>>]
EndOfInput(st) == [st |-> st, out |-> "None", ty |-> "None", val |-> <<>>]

\* a token type whose payload is the current slice
OkText(st, ty, text) == IF text = SliceFault THEN Panic(st) ELSE Ok(st, ty, text)

OkSlice(src, st, ty) == OkText(st, ty, slice(src, st))

(***************************************************************************)
(* Generic word reading                                                    *)
(***************************************************************************)
\* the match arms of read_word: reserved word text -> token type
ReservedWords ==
    {
      <<<<"d", "e", "f", "i", "n", "e">>, "Define">>,
      <<<<"d", "e", "f", "n">>, "Define">>,
      <<<<"#", "%", "d", "e", "f", "i", "n", "e">>, "Define">>,
      <<<<"l", "e", "t">>, "Let">>,
      <<<<"%", "p", "l", "a", "i", "n", "-", "l", "e", "t">>, "TestLet">>,
      <<<<"r", "e", "t", "u", "r", "n", "!">>, "Return">>,
      <<<<"b", "e", "g", "i", "n">>, "Begin">>,
      <<<<"l", "a", "m", "b", "d", "a">>, "Lambda">>,
      <<<<"f", "n">>, "Lambda">>,
      <<<<"#", "%", "p", "l", "a", "i", "n", "-", "l", "a", "m", "b", "d", "a">>, "Lambda">>,
      <<<<Lambda>>, "Lambda">>,
      <<<<"q", "u", "o", "t", "e">>, "Quote">>,
      <<<<"s", "y", "n", "t", "a", "x", "-", "r", "u", "l", "e", "s">>, "SyntaxRules">>,
      <<<<"d", "e", "f", "i", "n", "e", "-", "s", "y", "n", "t", "a", "x">>, "DefineSyntax">>,
      <<<<".", ".", ".">>, "Ellipses">>,
      <<<<"s", "e", "t", "!">>, "Set">>,
      <<<<"r", "e", "q", "u", "i", "r", "e">>, "Require">>,
      <<<<"i", "f">>, "If">>
    }

ReservedText == {r[1] : r \in ReservedWords}

\* match self.slice() { ... identifier => Identifier(identifier) }
WordType(text) ==
    IF text \in ReservedText
    THEN (CHOOSE r \in ReservedWords : r[1] = text)[2]
    ELSE "Identifier"

RECURSIVE read_word_loop(_, _)
read_word_loop(src, st) ==
    LET c == peek(src, st) IN
    IF c = NoChar THEN st
    ELSE IF c \in {"(", "[", ")", "]"} THEN st
    ELSE IF is_whitespace(c) THEN st
    ELSE IF c = "'" THEN st
    ELSE IF c = "\\" THEN read_word_loop(src, eat(src, eat(src, st)))
    ELSE read_word_loop(src, eat(src, st))

\* the match of read_word on the slice
word_token(s1, text) ==
    IF text = SliceFault THEN Panic(s1)
    ELSE IF WordType(text) = "Identifier" THEN Ok(s1, "Identifier", text)
    ELSE Ok(s1, WordType(text), <<>>)

word_at(src, s1) == word_token(s1, slice(src, s1))

read_word(src, st) == word_at(src, read_word_loop(src, st))

(***************************************************************************)
(* String literals                                                         *)
(***************************************************************************)
\* the second character of an escape pair copied as it is
EscapeChar_literal(c) == c

\* the character an escape pair denotes; U+0000 is named "NUL"
EscapeChar(c) ==
    CASE c = "\"" -> "\""
      [] c = "\\" -> "\\"
      [] c = "t" -> "\t"
      [] c = "n" -> "\n"
      [] c = "r" -> "\r"
      [] c = "0" -> "NUL"

RECURSIVE read_string_loop_eating(_, _, _)
\* the character of an unrecognized escape consumed with its backslash
read_string_loop_eating(src, st, buf) ==
    LET c == peek(src, st) IN
    IF c = NoChar THEN Err(st, "IncompleteString")
    ELSE LET s1 == eat(src, st) IN
         IF c = "\"" THEN Ok(s1, "StringLiteral", buf)
         ELSE IF c = "\\"
              THEN IF peek(src, s1) \in {"\"", "\\", "t", "n", "r", "0"}
                   THEN read_string_loop_eating(src, eat(src, s1),
                                                Append(buf, EscapeChar(peek(src, s1))))
                   ELSE Err(eat(src, s1), "InvalidEscape")
              ELSE read_string_loop_eating(src, s1, Append(buf, c))

RECURSIVE read_string_loop(_, _, _)
read_string_loop(src, st, buf) ==
    LET c == peek(src, st) IN
    IF c = NoChar THEN Err(st, "IncompleteString")
    ELSE LET s1 == eat(src, st) IN
         IF c = "\"" THEN Ok(s1, "StringLiteral", buf)
         ELSE IF c = "\\"
              THEN IF peek(src, s1) \in {"\"", "\\", "t", "n", "r", "0"}
                   THEN read_string_loop(src, eat(src, s1),
                                         Append(buf, EscapeChar(peek(src, s1))))
                   ELSE Err(s1, "InvalidEscape")
              ELSE read_string_loop(src, s1, Append(buf, c))

read_string(src, st) == read_string_loop(src, eat(src, st), <<>>)

(***************************************************************************)
(* Text-to-number conversions.  An integer value is the sequence           *)
(*   <<kind, sign, radix>> \o digits                                       *)
(* with kind "Small" (isize) or "Big" (BigInt), sign "+" or "-", and the   *)
(* digits of the magnitude without leading zeros (zero is <<"0">>, "+").   *)
(***************************************************************************)
DigitChars == <<"0", "1", "2", "3", "4", "5", "6", "7", "8", "9",
                "a", "b", "c", "d", "e", "f">>

UpperDigits == <<"0", "1", "2", "3", "4", "5", "6", "7", "8", "9",
                 "A", "B", "C", "D", "E", "F">>

\* char::to_digit(radix): the digit's value, or -1
to_digit(c, radix) ==
    IF \E i \in 1..radix : DigitChars[i] = c \/ UpperDigits[i] = c
    THEN (CHOOSE i \in 1..radix : DigitChars[i] = c \/ UpperDigits[i] = c) - 1
    ELSE -1

RECURSIVE StripZeros(_)
StripZeros(ds) ==
    IF Len(ds) > 1 /\ to_digit(ds[1], 16) = 0 THEN StripZeros(Tail(ds)) ELSE ds

\* the digits in canonical (lower case) form
Canon(ds) == [i \in 1..Len(ds) |-> DigitChars[to_digit(ds[i], 16) + 1]]

RECURSIVE DigitsLE(_, _)
\* a <= b for digit sequences of the same length
DigitsLE(a, b) ==
    IF a = <<>> THEN TRUE
    ELSE IF to_digit(a[1], 16) < to_digit(b[1], 16) THEN TRUE
    ELSE IF to_digit(a[1], 16) > to_digit(b[1], 16) THEN FALSE
    ELSE DigitsLE(Tail(a), Tail(b))

\* a <= b for magnitudes without leading zeros
MagLE(a, b) == Len(a) < Len(b) \/ (Len(a) = Len(b) /\ DigitsLE(a, b))

\* isize::MAX = 2^63 - 1 written in radix 10, 16, 8, 2
IsizeMax(radix) ==
    CASE radix = 10 -> <<"9", "2", "2", "3", "3", "7", "2", "0", "3", "6", "8", "5", "4", "7", "7", "5", "8", "0", "7">>
      [] radix = 16 -> <<"7">> \o [i \in 1..15 |-> "f"]
      [] radix = 8 -> [i \in 1..21 |-> "7"]
      [] radix = 2 -> [i \in 1..63 |-> "1"]

\* -isize::MIN = 2^63
IsizeMinMag(radix) ==
    CASE radix = 10 -> <<"9", "2", "2", "3", "3", "7", "2", "0", "3", "6", "8", "5", "4", "7", "7", "5", "8", "0", "8">>
      [] radix = 16 -> <<"8">> \o [i \in 1..15 |-> "0"]
      [] radix = 8 -> <<"1">> \o [i \in 1..21 |-> "0"]
      [] radix = 2 -> <<"1">> \o [i \in 1..63 |-> "0"]

FitsIsize(neg, mag, radix) ==
    IF neg THEN MagLE(mag, IsizeMinMag(radix)) ELSE MagLE(mag, IsizeMax(radix))

\* the text after an optional sign
Unsigned(text) ==
    IF text # <<>> /\ text[1] \in {"+", "-"} THEN Tail(text) ELSE text

\* [sign] digit+ in the radix
WellFormedInt(text, radix) ==
    /\ Unsigned(text) # <<>>
    /\ \A i \in 1..Len(Unsigned(text)) : to_digit(Unsigned(text)[i], radix) >= 0

Magnitude(text) == Canon(StripZeros(Unsigned(text)))

IsNegative(text) == text[1] = "-" /\ Magnitude(text) # <<"0">>

SignOf(text) == IF IsNegative(text) THEN "-" ELSE "+"

RadixName(radix) ==
    CASE radix = 10 -> "10" [] radix = 16 -> "16" [] radix = 8 -> "8" [] radix = 2 -> "2"

ParseFault == <<"ParseError">>

\* isize::from_str_radix: Err on empty, invalid digit or overflow
isize_from_str_radix(text, radix) ==
    IF WellFormedInt(text, radix) /\ FitsIsize(IsNegative(text), Magnitude(text), radix)
    THEN <<"Small", SignOf(text), RadixName(radix)>> \o Magnitude(text)
    ELSE ParseFault

\* BigInt::from_str
BigInt_from_str(text) ==
    IF WellFormedInt(text, 10)
    THEN <<"Big", SignOf(text), "10">> \o Magnitude(text)
    ELSE ParseFault

FirstOk(small, big) == IF small # ParseFault THEN small ELSE big

\* <MaybeBigInt as FromStr>::from_str: isize first, BigInt when that fails
MaybeBigInt_from_str(text) ==
    FirstOk(isize_from_str_radix(text, 10), BigInt_from_str(text))

\* <f64 as FromStr>::from_str accepts the text: [sign] digits [. digits]
\* [(e|E) [sign] digit+], with at least one digit around the point
f64_parses(text) ==
    LET body == Unsigned(text)
        n == Len(body)
        es == {i \in 1..n : body[i] \in {"e", "E"}}
        mEnd == IF es = {} THEN n ELSE (CHOOSE i \in es : \A j \in es : i <= j) - 1
        mant == SubSeq(body, 1, mEnd)
        exp == SubSeq(body, mEnd + 2, n)
        dots == {i \in 1..mEnd : mant[i] = "."}
    IN /\ Cardinality(dots) <= 1
       /\ \A i \in 1..mEnd : mant[i] \in AsciiDigits \cup {"."}
       /\ \E i \in 1..mEnd : mant[i] \in AsciiDigits
       /\ es # {} => /\ Unsigned(exp) # <<>>
                     /\ \A i \in 1..Len(Unsigned(exp)) : Unsigned(exp)[i] \in AsciiDigits

(***************************************************************************)
(* Number reading                                                          *)
(***************************************************************************)
Loop(st, abort, has_e) == [st |-> st, abort |-> abort, has_e |-> has_e]

RECURSIVE integer_phase(_, _)
\* the first while loop of read_number
integer_phase(src, st) ==
    LET c == peek(src, st) IN
    IF c = NoChar THEN Loop(st, FALSE, FALSE)
    ELSE IF is_numeric(c) THEN integer_phase(src, eat(src, st))
    ELSE IF c \in {"(", ")", "[", "]"} THEN Loop(st, FALSE, FALSE)
    ELSE IF c \in {".", "/"} THEN Loop(st, FALSE, FALSE)
    ELSE IF c \in {"e", "E"} THEN Loop(st, FALSE, TRUE)
    ELSE IF is_whitespace(c) THEN Loop(st, FALSE, FALSE)
    ELSE Loop(eat(src, st), TRUE, FALSE)

RECURSIVE float_phase(_, _, _)
\* the while loop of the '.' | 'e' | 'E' arm
float_phase(src, st, has_e) ==
    LET c == peek(src, st) IN
    IF c = NoChar THEN Loop(st, FALSE, has_e)
    ELSE IF is_numeric(c) THEN float_phase(src, eat(src, st), has_e)
    ELSE IF c \in {"e", "E"} /\ ~has_e THEN float_phase(src, eat(src, st), TRUE)
    ELSE IF c \in {"(", "[", ")", "]"} THEN Loop(st, FALSE, has_e)
    ELSE IF is_whitespace(c) THEN Loop(st, FALSE, has_e)
    ELSE Loop(eat(src, st), TRUE, has_e)

RECURSIVE rational_phase(_, _)
\* the while loop of the '/' arm
rational_phase(src, st) ==
    LET c == peek(src, st) IN
    IF c = NoChar THEN Loop(st, FALSE, FALSE)
    ELSE IF is_numeric(c) THEN rational_phase(src, eat(src, st))
    ELSE IF c \in {"(", "[", ")", "]"} THEN Loop(st, FALSE, FALSE)
    ELSE IF is_whitespace(c) THEN Loop(st, FALSE, FALSE)
    ELSE Loop(eat(src, st), TRUE, FALSE)

\* parse().unwrap() of a slice: the value, or the panic of either unwrap
Unwrapped(text, value) ==
    IF text = SliceFault \/ value = ParseFault THEN ParseFault ELSE value

integer_token(st, value) ==
    IF value = ParseFault THEN Panic(st) ELSE Ok(st, "IntegerLiteral", value)

integer_value(text) == Unwrapped(text, MaybeBigInt_from_str(text))

\* the sign left out of the text that is converted
integer_literal_unsigned(src, st) ==
    LET text == slice(src, st) IN
    integer_token(st, Unwrapped(text, MaybeBigInt_from_str(Unsigned(text))))

\* _ => IntegerLiteral(self.slice().parse().unwrap())
integer_literal(src, st) == integer_token(st, integer_value(slice(src, st)))

\* the match on the last character of the float text; the f64 value itself
\* is not modelled
float_token(st, text, word) ==
    IF text = SliceFault THEN Panic(st)
    ELSE IF text # <<>> /\ text[Len(text)] \in {"e", "E"} THEN word
    ELSE IF f64_parses(text) THEN Ok(st, "NumberLiteral", <<>>)
    ELSE Panic(st)

\* the tail of the float arm
float_literal(src, st) == float_token(st, slice(src, st), word_at(src, st))

\* &self.slice()[numerator_text.len() + 1..]
denominator_of(text, numerator_text) ==
    IF text = SliceFault \/ numerator_text = SliceFault THEN SliceFault
    ELSE StrGet(text, ByteOffset(numerator_text, Len(numerator_text)) + 1,
                ByteOffset(text, Len(text)))

fraction_value(numerator, denominator) ==
    IF numerator = ParseFault \/ denominator = ParseFault THEN ParseFault
    ELSE numerator \o <<"/">> \o denominator

fraction_token(st, denominator_text, value, word) ==
    IF denominator_text = SliceFault THEN Panic(st)
    ELSE IF denominator_text = <<>> THEN word
    ELSE IF value = ParseFault THEN Panic(st)
    ELSE Ok(st, "FractionLiteral", value)

fraction_parts(st, numerator_text, denominator_text, word) ==
    fraction_token(st, denominator_text,
                   fraction_value(MaybeBigInt_from_str(numerator_text),
                                  MaybeBigInt_from_str(denominator_text)),
                   word)

\* the tail of the '/' arm
fraction_literal(src, st, numerator_text) ==
    fraction_parts(st, numerator_text, denominator_of(slice(src, st), numerator_text),
                   word_at(src, st))

\* after the float loop
after_float(src, r2) ==
    IF r2.abort THEN read_word(src, r2.st) ELSE float_literal(src, r2.st)

\* after the rational loop
after_rational(src, r3, numerator_text) ==
    IF r3.abort THEN read_word(src, r3.st)
    ELSE fraction_literal(src, r3.st, numerator_text)

\* match self.chars.peek().copied() after the integer loop
after_integer(src, r1) ==
    IF r1.abort THEN read_word(src, r1.st)
    ELSE IF peek(src, r1.st) \in {".", "e", "E"}
    THEN after_float(src, float_phase(src, eat(src, r1.st), r1.has_e))
    ELSE IF peek(src, r1.st) = "/"
    THEN after_rational(src, rational_phase(src, eat(src, r1.st)), slice(src, r1.st))
    ELSE integer_literal(src, r1.st)

read_number(src, st) == after_integer(src, integer_phase(src, st))

(***************************************************************************)
(* Hash forms                                                              *)
(***************************************************************************)
starts_with(text, prefix) ==
    Len(text) >= Len(prefix) /\ SubSeq(text, 1, Len(prefix)) = prefix

strip_prefix(text, prefix) == SubSeq(text, Len(prefix) + 1, Len(text))

RECURSIVE trim_start_matches(_, _)
trim_start_matches(text, prefix) ==
    IF starts_with(text, prefix)
    THEN trim_start_matches(strip_prefix(text, prefix), prefix)
    ELSE text

NoValue == <<"None">>

\* tokens::parse_unicode_str: the code-point escape form #\uXXXX
parse_unicode_str(text) ==
    LET hex == strip_prefix(text, <<"#", "\\", "u">>) IN
    IF /\ starts_with(text, <<"#", "\\", "u">>)
       /\ hex # <<>>
       /\ \A i \in 1..Len(hex) : to_digit(hex[i], 16) >= 0
    THEN <<"U+">> \o Canon(StripZeros(hex))
    ELSE NoValue

\* the fixed name table of parse_char
CharNames ==
    { <<<<"#", "\\", "S", "P", "A", "C", "E">>, " ">>,
      <<<<"#", "\\", "s", "p", "a", "c", "e">>, " ">>,
      <<<<"#", "\\", "\\">>, "\\">>,
      <<<<"#", "\\", "t", "a", "b">>, "\t">>,
      <<<<"#", "\\", "T", "A", "B">>, "\t">>,
      <<<<"#", "\\", "N", "E", "W", "L", "I", "N", "E">>, "\n">>,
      <<<<"#", "\\", "n", "e", "w", "l", "i", "n", "e">>, "\n">>,
      <<<<"#", "\\", "r", "e", "t", "u", "r", "n">>, "\r">>,
      <<<<"#", "\\", "R", "E", "T", "U", "R", "N">>, "\r">>,
      <<<<"#", "\\", ")">>, ")">>,
      <<<<"#", "\\", "]">>, "]">>,
      <<<<"#", "\\", "[">>, "[">>,
      <<<<"#", "\\", "(">>, "(">>,
      <<<<"#", "\\", "^">>, "^">> }

\* char::from_str(..).ok(): the text is exactly one character
char_from_str(text) == IF Len(text) = 1 THEN text ELSE NoValue

\* the fallback arm of parse_char
char_fallback(parsed_unicode, rest) ==
    IF parsed_unicode # NoValue THEN parsed_unicode ELSE char_from_str(rest)

parse_char(text) ==
    IF \E r \in CharNames : r[1] = text
    THEN <<(CHOOSE r \in CharNames : r[1] = text)[2]>>
    ELSE IF starts_with(text, <<"#", "\\">>)
    THEN char_fallback(parse_unicode_str(text), trim_start_matches(text, <<"#", "\\">>))
    ELSE NoValue

RECURSIVE hash_loop(_, _)
\* the while loop of read_hash_value
hash_loop(src, st) ==
    LET c == peek(src, st) IN
    IF c = NoChar THEN st
    ELSE IF c = "\\" THEN hash_loop(src, eat(src, eat(src, st)))
    ELSE IF c \in {"(", "[", ")", "]"} THEN st
    ELSE IF is_whitespace(c) THEN st
    ELSE hash_loop(src, eat(src, st))

radix_token(st, value, error) ==
    IF value = ParseFault THEN Err(st, error) ELSE Ok(st, "IntegerLiteral", value)

\* the three radix arms of read_hash_value
radix_literal(st, digits, radix, error) ==
    radix_token(st, isize_from_str_radix(digits, radix), error)

character_token(st, value) ==
    IF value # NoValue THEN Ok(st, "CharacterLiteral", value)
    ELSE Err(st, "InvalidCharacter")

\* match self.slice() of read_hash_value
hash_token(src, st, text) ==
    IF text = SliceFault THEN Panic(st)
    ELSE IF text \in {<<"#", "t", "r", "u", "e">>, <<"#", "t">>}
    THEN Ok(st, "BooleanLiteral", <<"true">>)
    ELSE IF text \in {<<"#", "f", "a", "l", "s", "e">>, <<"#", "f">>}
    THEN Ok(st, "BooleanLiteral", <<"false">>)
    ELSE IF text = <<"#", "'">> THEN Ok(st, "QuoteSyntax", <<>>)
    ELSE IF text = <<"#", Backtick>> THEN Ok(st, "QuasiQuoteSyntax", <<>>)
    ELSE IF text = <<"#", ",">> THEN Ok(st, "UnquoteSyntax", <<>>)
    ELSE IF text = <<"#", ",", "@">> THEN Ok(st, "UnquoteSpliceSyntax", <<>>)
    ELSE IF starts_with(text, <<"#", "x">>)
    THEN radix_literal(st, strip_prefix(text, <<"#", "x">>), 16, "MalformedHexInteger")
    ELSE IF starts_with(text, <<"#", "o">>)
    THEN radix_literal(st, strip_prefix(text, <<"#", "o">>), 8, "MalformedOctalInteger")
    ELSE IF starts_with(text, <<"#", "b">>)
    THEN radix_literal(st, strip_prefix(text, <<"#", "b">>), 2, "MalformedBinaryInteger")
    ELSE IF starts_with(text, <<"#", ":">>) THEN Ok(st, "Keyword", text)
    ELSE IF starts_with(text, <<"#", "\\">>) THEN character_token(st, parse_char(text))
    ELSE read_word(src, st)

hash_at(src, st) == hash_token(src, st, slice(src, st))

read_hash_value(src, st0) == hash_at(src, hash_loop(src, st0))

(***************************************************************************)
(* impl Iterator for Lexer                                                 *)
(***************************************************************************)
\* match self.chars.peek(): st is the cursor at the character c, s1 the
\* cursor after it
dispatch(src, st, c, s1) ==
    IF c = NoChar THEN EndOfInput(st)
    ELSE IF c = ";" THEN Ok(read_rest_of_line(src, s1), "Comment", <<>>)
    ELSE IF c = "\"" THEN read_string(src, st)
    ELSE IF c \in {"(", "[", "{"} THEN Ok(s1, "OpenParen", <<>>)
    ELSE IF c \in {")", "]", "}"} THEN Ok(s1, "CloseParen", <<>>)
    ELSE IF c = "'" THEN Ok(s1, "QuoteTick", <<>>)
    ELSE IF c = Backtick THEN Ok(s1, "QuasiQuote", <<>>)
    ELSE IF c = ","
    THEN IF peek(src, s1) = "@" THEN Ok(eat(src, s1), "UnquoteSplice", <<>>)
         ELSE Ok(s1, "Unquote", <<>>)
    ELSE IF c = "+"
    THEN IF peek(src, s1) # NoChar /\ is_numeric(peek(src, s1)) THEN read_number(src, s1)
         ELSE OkSlice(src, s1, "Identifier")
    ELSE IF c = "-"
    THEN IF peek(src, s1) # NoChar /\ is_numeric(peek(src, s1)) THEN read_number(src, s1)
         ELSE read_word(src, s1)
    ELSE IF c = "#" THEN read_hash_value(src, s1)
    ELSE IF (~is_whitespace(c) /\ ~is_numeric(c)) \/ c = "_" THEN read_word(src, st)
    ELSE IF is_numeric(c) THEN read_number(src, st)
    ELSE Err(s1, "UnexpectedChar")

\* the start of the token left where it was
start_token_kept(s0) == s0

\* self.token_start = self.token_end
start_token(s0) == [s0 EXCEPT !.token_start = s0.token_end]

dispatch_at(src, st) == dispatch(src, st, peek(src, st), eat(src, st))

Lexer_next(src, st0) == dispatch_at(src, start_token(consume_whitespace(src, st0)))

(***************************************************************************)
(* impl Iterator for TokenStream                                           *)
(***************************************************************************)
\* Token::new(ty, source, span, source_id); the source id is not modelled
Token(ty, val, text, sp) == [ty |-> ty, val |-> val, source |-> text, span |-> sp]

Some(st, token) == [st |-> st, out |-> "Some", token |-> token]
None(st) == [st |-> st, out |-> "None", token |-> Token("None", <<>>, <<>>, <<0, 0>>)]
Abort(st) == [st |-> st, out |-> "Panic", token |-> Token("Panic", <<>>, <<>>, <<0, 0>>)]

\* a lexical error taken for the end of the stream
deliver_stopping(r, text, again) ==
    IF r.out \in {"None", "Err"} THEN None(r.st)
    ELSE IF r.out = "Panic" \/ text = SliceFault THEN Abort(r.st)
    ELSE IF again.skipped THEN again.next
    ELSE Some(r.st, Token(r.ty, r.val, text, span(r.st)))

\* Ok(token) => token, Err(_) => TokenType::Error
TokenType(r) == IF r.out = "Ok" THEN r.ty ELSE "Error"
TokenValue(r) == IF r.out = "Ok" THEN r.val ELSE <<>>

\* the closure of TokenStream::next on the scanner's item r; again is the
\* answer of the recursive self.next()
deliver(r, text, again) ==
    IF r.out = "None" THEN None(r.st)
    ELSE IF r.out = "Panic" \/ text = SliceFault THEN Abort(r.st)
    ELSE IF again.skipped THEN again.next
    ELSE Some(r.st, Token(TokenType(r), TokenValue(r), text, span(r.st)))

Again(skipped, next) == [skipped |-> skipped, next |-> next]

\* a suppressed comment taken for the end of the stream
TokenStream_next_ending(src, st, skip) ==
    LET r == Lexer_next(src, st) IN
    deliver(r, slice(src, r.st), Again(TokenType(r) = "Comment" /\ skip, None(r.st)))

RECURSIVE TokenStream_next(_, _, _)
\* TokenType::Comment if self.skip_comments => self.next()
next_at(src, r, skip) ==
    deliver(r, slice(src, r.st),
            IF r.out = "Ok" /\ r.ty = "Comment" /\ skip
            THEN Again(TRUE, TokenStream_next(src, r.st, skip))
            ELSE Again(FALSE, None(r.st)))

TokenStream_next(src, st, skip) == next_at(src, Lexer_next(src, st), skip)

(***************************************************************************)
(* The token stream as a state machine: one request per step               *)
(***************************************************************************)
MaxLen == 4

\* buffers of at most n characters over an alphabet
Buffers(alphabet, n) == UNION {[1..k -> alphabet] : k \in 0..n}

Alphabet ==
    {"(", " ", "\f", IdeographicSpace, ";", "\n", "\"", "\\", "1", Lambda, ArabicThree}

\* the parser is not running
ParserIdle ==
    /\ tokenizer = <<>>
    /\ cursor = 0
    /\ pc = "idle"
    /\ stack = <<>>
    /\ current_frame = <<>>
    /\ results = <<>>

\* TokenStream::new(input, skip_comments, None)
TokenStreamNew(inputs, skips) ==
    /\ source \in inputs
    /\ skip_comments \in skips
    /\ lexer = LexerNew
    /\ emitted = <<>>
    /\ status = "running"
    /\ ParserIdle

Init == TokenStreamNew(Buffers(Alphabet, MaxLen), BOOLEAN)

\* one call of TokenStream::next by the consumer
\* the consumer takes the answer r of TokenStream::next
Taken(r) ==
    /\ lexer' = r.st
    /\ emitted' = IF r.out = "Some" THEN Append(emitted, r.token) ELSE emitted
    /\ status' = CASE r.out = "Some" -> "running"
                   [] r.out = "None" -> "done"
                   [] r.out = "Panic" -> "panicked"

StreamNext ==
    /\ status = "running"
    /\ Taken(TokenStream_next(source, lexer, skip_comments))
    /\ UNCHANGED <<source, skip_comments>>
    /\ UNCHANGED parvars

Next == StreamNext

Spec == Init /\ [][Next]_vars

(***************************************************************************)
(* Streams over the texts of numbers                                       *)
(***************************************************************************)
NumAlphabet == {"1", "e", ".", "/", "-", "+", " ", "(", "#", ArabicThree, GarayDigitZero}

\* the texts of lexer_tests::test_almost_literals and test_fractions
AlmostLiterals ==
    { <<"1", "e">>,
      <<"1", "e", "e">>,
      <<"1", ".", "2", "e", "5", ".", "4">>,
      <<"1", "E", "1", "0", "/", "4">>,
      <<"1", ".", "4", "5", "#">>,
      <<"3", "-">>,
      <<"1", "/">>,
      <<"1", "/", "/", "4">>,
      <<"1", "/", "4", ".", "0">> }

\* the texts of test_number, test_bigint and negative_test_bigint, and the
\* two ends of the isize range
BoundaryLiterals ==
    { <<"0">>,
      <<"-", "0">>,
      <<"9", "2", "2", "3", "3", "7", "2", "0", "3", "6", "8", "5", "4", "7", "7", "5", "8", "0", "7">>,
      <<"9", "2", "2", "3", "3", "7", "2", "0", "3", "6", "8", "5", "4", "7", "7", "5", "8", "0", "8">>,
      <<"-", "9", "2", "2", "3", "3", "7", "2", "0", "3", "6", "8", "5", "4", "7", "7", "5", "8", "0", "8">>,
      <<"-", "9", "2", "2", "3", "3", "7", "2", "0", "3", "6", "8", "5", "4", "7", "7", "5", "8", "0", "9">> }

NumInputs == Buffers(NumAlphabet, MaxLen) \cup AlmostLiterals \cup BoundaryLiterals

InitNum == TokenStreamNew(NumInputs, {TRUE})

SpecNum == InitNum /\ [][Next]_vars

(***************************************************************************)
(* Streams over radix literals                                             *)
(***************************************************************************)
RadixAlphabet == {"#", "x", "o", "b", "1", "7", "f", " "}

\* isize::MAX and isize::MIN in radix 16 and 8, and the magnitudes next to them
RadixBoundaryLiterals ==
    { <<"#", "x", "7", "f", "f", "f", "f", "f", "f", "f", "f", "f", "f", "f", "f", "f", "f", "f">>,
      <<"#", "x", "8", "0", "0", "0", "0", "0", "0", "0", "0", "0", "0", "0", "0", "0", "0", "0">>,
      <<"#", "x", "-", "8", "0", "0", "0", "0", "0", "0", "0", "0", "0", "0", "0", "0", "0", "0", "0">>,
      <<"#", "o", "7", "7", "7", "7", "7", "7", "7", "7", "7", "7", "7", "7", "7", "7", "7", "7", "7", "7", "7", "7", "7">>,
      <<"#", "o", "1", "0", "0", "0", "0", "0", "0", "0", "0", "0", "0", "0", "0", "0", "0", "0", "0", "0", "0", "0", "0", "0">> }

RadixInputs == Buffers(RadixAlphabet, MaxLen) \cup RadixBoundaryLiterals

InitRadix == TokenStreamNew(RadixInputs, {TRUE})

SpecRadix == InitRadix /\ [][Next]_vars

(***************************************************************************)
(* Streams over the three bracket families                                 *)
(***************************************************************************)
BracketAlphabet == {"(", "[", "{", ")", "]", "}", "a", "1", "#", " "}

InitBrackets == TokenStreamNew(Buffers(BracketAlphabet, MaxLen), {TRUE})

SpecBrackets == InitBrackets /\ [][Next]_vars

(***************************************************************************)
(* Streams over the texts of string literals: an opening quote, then up to *)
(* MaxLen characters                                                       *)
(***************************************************************************)
StrAlphabet == {"\"", "\\", "n", "0", "a", " ", "(", Lambda}

StrInputs == {<<"\"">> \o b : b \in Buffers(StrAlphabet, MaxLen)}

InitStr == TokenStreamNew(StrInputs, {TRUE})

SpecStr == InitStr /\ [][Next]_vars

(***************************************************************************)
(* Streams over strings with an escape at their start: the opening quote   *)
(* and then up to MaxLen characters, the first a backslash, with comments  *)
(* kept and suppressed                                                     *)
(***************************************************************************)
EscapeAlphabet ==
    {"\"", "\\", "a", " ", "\n", "'", Backtick, ",", "(", "}", ";", "1", ".", "#"}

EscapeInputs == {<<"\"", "\\">> \o b : b \in Buffers(EscapeAlphabet, MaxLen - 1)}

InitEscape == TokenStreamNew(EscapeInputs, BOOLEAN)

SpecEscape == InitEscape /\ [][Next]_vars

(***************************************************************************)
(* Streams over the texts of words                                         *)
(***************************************************************************)
WordAlphabet == {"i", "f", "I", "'", "\\", "(", "}", " ", Lambda}

InitWord == TokenStreamNew(Buffers(WordAlphabet, MaxLen), {TRUE})

SpecWord == InitWord /\ [][Next]_vars

(***************************************************************************)
(* Streams over the texts of numbers that turn into words                  *)
(***************************************************************************)
AbortAlphabet == {"1", "a", "'", "\\", "(", ".", "/", " ", "-"}

InitAbort == TokenStreamNew(Buffers(AbortAlphabet, MaxLen), {TRUE})

SpecAbort == InitAbort /\ [][Next]_vars

(***************************************************************************)
(* Streams over the texts of floats and rationals next to every delimiter  *)
(***************************************************************************)
FractionAlphabet == {"1", "2", "0", "e", ".", "/", "-", " ", "}", "("}

InitFraction == TokenStreamNew(Buffers(FractionAlphabet, MaxLen), {TRUE})

SpecFraction == InitFraction /\ [][Next]_vars

(***************************************************************************)
(* Streams over the texts of sigils                                        *)
(***************************************************************************)
SigilAlphabet == {"#", "'", Backtick, ",", "@", "a", "(", " "}

InitSigil == TokenStreamNew(Buffers(SigilAlphabet, MaxLen), {TRUE})

SpecSigil == InitSigil /\ [][Next]_vars

(***************************************************************************)
(* Streams read to their end.  In SpecScanFair the consumer asks for the    *)
(* next token for as long as the stream is running: a request is possible  *)
(* exactly then and always changes the state, so weak fairness of          *)
(* StreamNext is the disjunction written out there.                        *)
(***************************************************************************)
ScanAlphabet == {"a", "'", "(", " ", "\f", ";", "\"", "\\", "1", "#", ArabicThree}

InitScan == TokenStreamNew(Buffers(ScanAlphabet, MaxLen), BOOLEAN)

SpecScan == InitScan /\ [][Next]_vars

SpecScanFair ==
    /\ InitScan
    /\ [][Next]_vars
    /\ \/ []<>(status # "running")
       \/ []<><<StreamNext>>_vars

(***************************************************************************)
(* Streams over the texts of character literals: #\ and then up to MaxLen  *)
(* characters, or one of the listed names                                  *)
(***************************************************************************)
CharAlphabet == {"\\", "#", "a", "u", "1", " ", "(", "]", Lambda}

CharWords ==
    { <<"s", "p", "a", "c", "e">>, <<"S", "P", "A", "C", "E">>,
      <<"t", "a", "b">>, <<"T", "A", "B">>,
      <<"n", "e", "w", "l", "i", "n", "e">>, <<"N", "E", "W", "L", "I", "N", "E">>,
      <<"r", "e", "t", "u", "r", "n">>, <<"R", "E", "T", "U", "R", "N">>,
      <<"S", "p", "a", "c", "e">>, <<"n", "u", "l">>, <<"u", "0", "3", "B", "B">>,
      <<"^">>, <<"t", "a", "b", "(">>, <<"s", "p", "a", "c", "e", " ", "a">> }

CharInputs == {<<"#", "\\">> \o b : b \in Buffers(CharAlphabet, MaxLen) \cup CharWords}

InitChar == TokenStreamNew(CharInputs, {TRUE})

(***************************************************************************)
(* The scanner consumed directly, without TokenStream: emitted holds the   *)
(* items of <Lexer as Iterator>::next, Ok(token type) or Err(TokenError),  *)
(* each with the span the lexer reports after it                           *)
(***************************************************************************)
LexerItem(r) == [out |-> r.out, ty |-> r.ty, val |-> r.val, span |-> span(r.st)]

\* the consumer takes the item r of Lexer::next
Scanned(r) ==
    /\ lexer' = r.st
    /\ emitted' = IF r.out \in {"Ok", "Err"} THEN Append(emitted, LexerItem(r))
                  ELSE emitted
    /\ status' = CASE r.out \in {"Ok", "Err"} -> "running"
                   [] r.out = "None" -> "done"
                   [] r.out = "Panic" -> "panicked"

LexerStep ==
    /\ status = "running"
    /\ Scanned(Lexer_next(source, lexer))
    /\ UNCHANGED <<source, skip_comments>>
    /\ UNCHANGED parvars

SpecStrLexer == InitStr /\ [][LexerStep]_vars

\* scanner steps over buffers with a character for every arm of the match
\* of Lexer::next
DispatchAlphabet ==
    {"$", "\f", NoBreakSpace, " ", "\n", ";", "\"", "(", ")", "'", ",", "-", "#", "1",
     ArabicThree}

InitDispatch == TokenStreamNew(Buffers(DispatchAlphabet, MaxLen), {TRUE})

SpecDispatch == InitDispatch /\ [][LexerStep]_vars

SpecCharLexer == InitChar /\ [][LexerStep]_vars

(***************************************************************************)
(* Parser (src/parser.rs).  The tokenizer is the sequence of items it will *)
(* yield: Some(Ok(token)) or Some(Err(e)), then None.  A token is named by *)
(* its variant; Identifier and NumberLiteral tokens carry their text.      *)
(***************************************************************************)
OkItem(tok) == [ok |-> TRUE, tok |-> tok]
ErrItem(e) == [ok |-> FALSE, tok |-> e]

\* Expr::Atom and Expr::ListVal
Atom(tok) == [kind |-> "Atom", tok |-> tok, children |-> <<>>]
ListVal(children) == [kind |-> "ListVal", tok |-> "", children |-> children]

\* the items of Parser::next: Ok(expr), Err(TokenError(e)),
\* Err(Unexpected(tok)), Err(UnexpectedEOF)
OkExpr(expr) == [kind |-> "Ok", expr |-> expr, tok |-> ""]
TokenError(e) == [kind |-> "TokenError", expr |-> ListVal(<<>>), tok |-> e]
Unexpected(tok) == [kind |-> "Unexpected", expr |-> ListVal(<<>>), tok |-> tok]
UnexpectedEOF == [kind |-> "UnexpectedEOF", expr |-> ListVal(<<>>), tok |-> ""]

\* the reserved words of the data model
KeywordTokens ==
    {"Define", "Let", "TestLet", "Return", "Begin", "Lambda", "Quote",
     "SyntaxRules", "DefineSyntax", "Ellipses", "Set", "Require", "If"}

\* Token::is_reserved_keyword: the reserved words and, as test_error has it
\* for "())", the closing delimiter
is_reserved_keyword(tok) == tok \in KeywordTokens \cup {"CloseParen"}

Frames(stk, frame) == [stack |-> stk, frame |-> frame]

\* an inner opening delimiter that saves nothing
open_paren_flat(stk, frame) == Frames(stk, frame)

\* Token::OpenParen arm of read_from_tokens
open_paren(stk, frame) == Frames(Append(stk, frame), <<>>)

\* a closed group appended to the saved sequence, which stays on the stack
close_paren_keeping(stk, frame) ==
    Frames(stk, Append(stk[Len(stk)], ListVal(frame)))

\* a closed group placed before its earlier siblings
close_paren_reordered(stk, frame) ==
    Frames(SubSeq(stk, 1, Len(stk) - 1), <<ListVal(frame)>> \o stk[Len(stk)])

\* Token::CloseParen arm of read_from_tokens, stack.pop() == Some(prev_frame)
close_paren(stk, frame) ==
    Frames(SubSeq(stk, 1, Len(stk) - 1), Append(stk[Len(stk)], ListVal(frame)))

\* a reserved keyword at top level taken for an expression
top_level_lenient(tok) ==
    IF tok = "OpenParen" THEN "read"
    ELSE IF tok = "CloseParen" THEN "unexpected"
    ELSE "atom"

\* the match of Parser::next on Ok(tok)
top_level(tok) ==
    IF tok = "OpenParen" THEN "read"
    ELSE IF is_reserved_keyword(tok) THEN "unexpected"
    ELSE "atom"

\* end of input inside the top-level group taken for its end
end_of_input_lenient(stk, frame) ==
    IF stk = <<>> THEN OkExpr(ListVal(frame)) ELSE UnexpectedEOF

\* None arm of read_from_tokens
end_of_input(stk, frame) == UnexpectedEOF

\* the parser exhausted by the first unexpected token
ParserNext_halting ==
    /\ pc = "idle"
    /\ IF cursor = Len(tokenizer)
       THEN /\ pc' = "done"
            /\ UNCHANGED <<cursor, stack, current_frame, results>>
       ELSE LET item == tokenizer[cursor + 1] IN
            /\ cursor' = cursor + 1
            /\ stack' = <<>>
            /\ current_frame' = <<>>
            /\ IF ~item.ok
               THEN /\ results' = Append(results, TokenError(item.tok))
                    /\ pc' = "idle"
               ELSE CASE top_level(item.tok) = "read" ->
                           /\ pc' = "reading"
                           /\ results' = results
                      [] top_level(item.tok) = "unexpected" ->
                           /\ pc' = "done"
                           /\ results' = Append(results, Unexpected(item.tok))
                      [] top_level(item.tok) = "atom" ->
                           /\ pc' = "idle"
                           /\ results' = Append(results, OkExpr(Atom(item.tok)))
    /\ UNCHANGED tokenizer
    /\ UNCHANGED lexvars

\* an unexpected token reported and left in the stream
ParserNext_peeking ==
    /\ pc = "idle"
    /\ IF cursor = Len(tokenizer)
       THEN /\ pc' = "done"
            /\ UNCHANGED <<cursor, stack, current_frame, results>>
       ELSE LET item == tokenizer[cursor + 1] IN
            /\ stack' = <<>>
            /\ current_frame' = <<>>
            /\ IF ~item.ok
               THEN /\ results' = Append(results, TokenError(item.tok))
                    /\ cursor' = cursor + 1
                    /\ pc' = "idle"
               ELSE CASE top_level(item.tok) = "read" ->
                           /\ pc' = "reading"
                           /\ cursor' = cursor + 1
                           /\ results' = results
                      [] top_level(item.tok) = "unexpected" ->
                           /\ pc' = "idle"
                           /\ cursor' = cursor
                           /\ results' = Append(results, Unexpected(item.tok))
                      [] top_level(item.tok) = "atom" ->
                           /\ pc' = "idle"
                           /\ cursor' = cursor + 1
                           /\ results' = Append(results, OkExpr(Atom(item.tok)))
    /\ UNCHANGED tokenizer
    /\ UNCHANGED lexvars

\* impl Iterator for Parser, next(): one token is pulled and dispatched; an
\* opening delimiter enters read_from_tokens with an empty stack and frame
ParserNext ==
    /\ pc = "idle"
    /\ IF cursor = Len(tokenizer)
       THEN /\ pc' = "done"
            /\ UNCHANGED <<cursor, stack, current_frame, results>>
       ELSE LET item == tokenizer[cursor + 1] IN
            /\ cursor' = cursor + 1
            /\ stack' = <<>>
            /\ current_frame' = <<>>
            /\ IF ~item.ok
               THEN /\ results' = Append(results, TokenError(item.tok))
                    /\ pc' = "idle"
               ELSE CASE top_level(item.tok) = "read" ->
                           /\ pc' = "reading"
                           /\ results' = results
                      [] top_level(item.tok) = "unexpected" ->
                           /\ pc' = "idle"
                           /\ results' = Append(results, Unexpected(item.tok))
                      [] top_level(item.tok) = "atom" ->
                           /\ pc' = "idle"
                           /\ results' = Append(results, OkExpr(Atom(item.tok)))
    /\ UNCHANGED tokenizer
    /\ UNCHANGED lexvars

\* the loop of read_from_tokens going on after a lexical error
ReadStep_resuming ==
    /\ pc = "reading"
    /\ IF cursor = Len(tokenizer)
       THEN /\ results' = Append(results, end_of_input(stack, current_frame))
            /\ pc' = "idle"
            /\ UNCHANGED <<cursor, stack, current_frame>>
       ELSE LET item == tokenizer[cursor + 1] IN
            /\ cursor' = cursor + 1
            /\ IF ~item.ok
               THEN /\ results' = Append(results, TokenError(item.tok))
                    /\ UNCHANGED <<pc, stack, current_frame>>
               ELSE IF item.tok = "OpenParen"
               THEN /\ stack' = open_paren(stack, current_frame).stack
                    /\ current_frame' = open_paren(stack, current_frame).frame
                    /\ UNCHANGED <<pc, results>>
               ELSE IF item.tok = "CloseParen"
               THEN IF stack # <<>>
                    THEN /\ stack' = close_paren(stack, current_frame).stack
                         /\ current_frame' = close_paren(stack, current_frame).frame
                         /\ UNCHANGED <<pc, results>>
                    ELSE /\ results' = Append(results, OkExpr(ListVal(current_frame)))
                         /\ pc' = "idle"
                         /\ UNCHANGED <<stack, current_frame>>
               ELSE /\ current_frame' = Append(current_frame, Atom(item.tok))
                    /\ UNCHANGED <<pc, stack, results>>
    /\ UNCHANGED tokenizer
    /\ UNCHANGED lexvars

\* one iteration of the loop of read_from_tokens
ReadStep ==
    /\ pc = "reading"
    /\ IF cursor = Len(tokenizer)
       THEN /\ results' = Append(results, end_of_input(stack, current_frame))
            /\ pc' = "idle"
            /\ UNCHANGED <<cursor, stack, current_frame>>
       ELSE LET item == tokenizer[cursor + 1] IN
            /\ cursor' = cursor + 1
            /\ IF ~item.ok
               THEN /\ results' = Append(results, TokenError(item.tok))
                    /\ pc' = "idle"
                    /\ UNCHANGED <<stack, current_frame>>
               ELSE IF item.tok = "OpenParen"
               THEN /\ stack' = open_paren(stack, current_frame).stack
                    /\ current_frame' = open_paren(stack, current_frame).frame
                    /\ UNCHANGED <<pc, results>>
               ELSE IF item.tok = "CloseParen"
               THEN IF stack # <<>>
                    THEN /\ stack' = close_paren(stack, current_frame).stack
                         /\ current_frame' = close_paren(stack, current_frame).frame
                         /\ UNCHANGED <<pc, results>>
                    ELSE /\ results' = Append(results, OkExpr(ListVal(current_frame)))
                         /\ pc' = "idle"
                         /\ UNCHANGED <<stack, current_frame>>
               ELSE /\ current_frame' = Append(current_frame, Atom(item.tok))
                    /\ UNCHANGED <<pc, stack, results>>
    /\ UNCHANGED tokenizer
    /\ UNCHANGED lexvars

MaxTokens == 6

TokenItems ==
    {OkItem("OpenParen"), OkItem("CloseParen"), OkItem("If"),
     OkItem("Identifier(a)"), ErrItem("InvalidEscape")}

\* no token stream is running
StreamIdle ==
    /\ source = <<>>
    /\ skip_comments = FALSE
    /\ lexer = LexerNew
    /\ emitted = <<>>
    /\ status = "done"

\* Parser::new(input), the input given by the items its tokenizer yields
InitParse ==
    /\ tokenizer \in Buffers(TokenItems, MaxTokens)
    /\ cursor = 0
    /\ pc = "idle"
    /\ stack = <<>>
    /\ current_frame = <<>>
    /\ results = <<>>
    /\ StreamIdle

NextParse == ParserNext \/ ReadStep

SpecParse == InitParse /\ [][NextParse]_vars

\* the caller iterates the parser until it answers None
SpecParseFair == InitParse /\ [][NextParse]_vars /\ WF_vars(NextParse)

(***************************************************************************)
(* Properties                                                              *)
(***************************************************************************)
RECURSIVE UTF8(_)
\* the bytes of a text: byte i of character c is <<c, i>>
UTF8(text) ==
    IF text = <<>> THEN <<>>
    ELSE [i \in 1..len_utf8(text[1]) |-> <<text[1], i>>] \o UTF8(Tail(text))

Emitted == {emitted[i] : i \in 1..Len(emitted)}

\* C1: every emitted token (Error and Comment tokens included) has
\* start <= end <= buffer length in bytes, and the bytes of the buffer at
\* [start, end) are the bytes of the token's carried source text.
SpanFidelity ==
    \A t \in Emitted :
        /\ t.span[1] <= t.span[2]
        /\ t.span[2] <= Len(UTF8(source))
        /\ SubSeq(UTF8(source), t.span[1] + 1, t.span[2]) = UTF8(t.source)

\* an Error token that holds a two-byte character was emitted, and it starts
\* after another two-byte character, where byte offset and character index
\* differ
SpanFidelityWitness ==
    \E t \in Emitted :
        /\ t.ty = "Error"
        /\ \E i \in 1..Len(t.source) : t.source[i] = Lambda
        /\ t.span[1] > CharIndex(source, t.span[1])

(***************************************************************************)
(* Parser properties                                                       *)
(***************************************************************************)
Toks(items) == [i \in 1..Len(items) |-> items[i].tok]

ErrorFree(items) == \A i \in 1..Len(items) : items[i].ok

RECURSIVE DepthAt(_, _)
\* the number of groups open after the first k tokens
DepthAt(toks, k) ==
    IF k = 0 THEN 0
    ELSE DepthAt(toks, k - 1)
         + (IF toks[k] = "OpenParen" THEN 1 ELSE IF toks[k] = "CloseParen" THEN -1 ELSE 0)

Balanced(toks) ==
    /\ \A k \in 0..Len(toks) : DepthAt(toks, k) >= 0
    /\ DepthAt(toks, Len(toks)) = 0

\* the tokens standing outside every group
TopLevelAt(toks) == {i \in 1..Len(toks) : DepthAt(toks, i - 1) = 0}

NoReservedAtTopLevel(toks) ==
    \A i \in TopLevelAt(toks) : toks[i] \notin KeywordTokens \cup {"CloseParen"}

\* a top-level form starts at every top-level token except a closer
TopLevelForms(toks) == {i \in TopLevelAt(toks) : toks[i] # "CloseParen"}

RECURSIVE Flatten(_)
RECURSIVE FlattenAll(_)
\* an Expr written back as tokens
Flatten(expr) ==
    IF expr.kind = "Atom" THEN <<expr.tok>>
    ELSE <<"OpenParen">> \o FlattenAll(expr.children) \o <<"CloseParen">>

FlattenAll(exprs) ==
    IF exprs = <<>> THEN <<>> ELSE Flatten(exprs[1]) \o FlattenAll(Tail(exprs))

WellFormedInput ==
    /\ ErrorFree(tokenizer)
    /\ Balanced(Toks(tokenizer))
    /\ NoReservedAtTopLevel(Toks(tokenizer))

\* C2: for an error-free, balanced token sequence without a reserved keyword
\* or closer at top level, the collected results are one Ok Expr per
\* top-level form, and writing them back in order (a List as open, children,
\* close; an Atom as its token) gives the input token sequence exactly.
ParseRoundTrip ==
    (pc = "done" /\ WellFormedInput) =>
        /\ \A i \in 1..Len(results) : results[i].kind = "Ok"
        /\ Len(results) = Cardinality(TopLevelForms(Toks(tokenizer)))
        /\ FlattenAll([i \in 1..Len(results) |-> results[i].expr]) = Toks(tokenizer)

\* a finished parse of two top-level forms, one of them a group that holds a
\* nested group followed by a sibling
ParseRoundTripWitness ==
    /\ pc = "done"
    /\ WellFormedInput
    /\ Len(results) >= 2
    /\ \E i \in 1..Len(results) :
           /\ results[i].expr.kind = "ListVal"
           /\ Len(results[i].expr.children) >= 2
           /\ results[i].expr.children[1].kind = "ListVal"

\* C3: when the token stream ends while a group opened during the current
\* read is unclosed, at any depth (depth 1, where the stack is empty,
\* included), the read fails with UnexpectedEOF: it returns no partial List
\* and does not report plain end of stream.
UnclosedGroupFails ==
    [][(pc = "reading" /\ cursor = Len(tokenizer)) =>
           /\ results' = Append(results, UnexpectedEOF)
           /\ pc' = "idle"]_vars

\* a read has failed with UnexpectedEOF at depth 1, with children already
\* collected for the top-level group
UnclosedGroupWitness ==
    /\ pc = "idle"
    /\ cursor = Len(tokenizer)
    /\ results # <<>>
    /\ results[Len(results)] = UnexpectedEOF
    /\ stack = <<>>
    /\ current_frame # <<>>

\* C4: the top-level driver pulls exactly one token per read and dispatches
\* on it: an opening delimiter starts the tree assembler; a reserved keyword
\* or a closing delimiter at top level fails with Unexpected carrying that
\* token; any other token is returned as a bare Atom.  A reserved keyword
\* inside a group becomes an Atom child.
TopLevelDispatch ==
    [][/\ (pc = "idle" /\ cursor < Len(tokenizer) /\ tokenizer[cursor + 1].ok) =>
            LET tok == tokenizer[cursor + 1].tok IN
            /\ cursor' = cursor + 1
            /\ tok = "OpenParen" => (pc' = "reading" /\ results' = results)
            /\ tok \in KeywordTokens \cup {"CloseParen"} =>
                   (pc' = "idle" /\ results' = Append(results, Unexpected(tok)))
            /\ tok \notin KeywordTokens \cup {"OpenParen", "CloseParen"} =>
                   (pc' = "idle" /\ results' = Append(results, OkExpr(Atom(tok))))
       /\ (/\ pc = "reading" /\ cursor < Len(tokenizer) /\ tokenizer[cursor + 1].ok
           /\ tokenizer[cursor + 1].tok \in KeywordTokens) =>
            /\ current_frame' = Append(current_frame, Atom(tokenizer[cursor + 1].tok))
            /\ pc' = "reading"
            /\ results' = results]_vars

\* the same keyword was refused at top level and then returned as the child
\* of a group, and a stray closer was refused
TopLevelDispatchWitness ==
    /\ Len(results) = 3
    /\ results[1] = Unexpected("If")
    /\ results[2] = OkExpr(ListVal(<<Atom("If")>>))
    /\ results[3] = Unexpected("CloseParen")

(***************************************************************************)
(* The reads a token stream owes, told from the stream alone               *)
(***************************************************************************)
RECURSIVE CloseOf(_, _)
\* where a read with d groups open before item q ends: at the closer of its
\* first group, at a lexical error, or past the last item at end of input
CloseOf(q, d) ==
    IF q > Len(tokenizer) THEN Len(tokenizer) + 1
    ELSE IF ~tokenizer[q].ok THEN q
    ELSE IF tokenizer[q].tok = "OpenParen" THEN CloseOf(q + 1, d + 1)
    ELSE IF tokenizer[q].tok = "CloseParen"
    THEN (IF d = 1 THEN q ELSE CloseOf(q + 1, d - 1))
    ELSE CloseOf(q + 1, d)

\* the last item of the read that starts at item p
ReadEnd(p) ==
    IF tokenizer[p].ok /\ tokenizer[p].tok = "OpenParen" THEN CloseOf(p + 1, 1) ELSE p

\* how the read that starts at item p ends
ReadKind(p) ==
    IF ReadEnd(p) > Len(tokenizer) THEN "UnexpectedEOF"
    ELSE IF ~tokenizer[ReadEnd(p)].ok THEN "TokenError"
    ELSE IF tokenizer[p].tok = "OpenParen" THEN "Ok"
    ELSE IF tokenizer[p].tok \in KeywordTokens \cup {"CloseParen"} THEN "Unexpected"
    ELSE "Ok"

RECURSIVE ReadKinds(_)
\* the outcomes of the reads from item p on, one after the other
ReadKinds(p) ==
    IF p > Len(tokenizer) THEN <<>>
    ELSE <<ReadKind(p)>> \o ReadKinds(ReadEnd(p) + 1)

RECURSIVE ReadStartAt(_)
\* the first item of the read in progress after cursor items, looked for
\* from the read that starts at item p
ReadStartAt(p) ==
    IF p > Len(tokenizer) THEN 0
    ELSE IF cursor < ReadEnd(p) THEN p
    ELSE ReadStartAt(ReadEnd(p) + 1)

ReadStart == ReadStartAt(1)

\* the results so far are those the first reads of the stream owe
ResultsAsOwed ==
    LET owed == ReadKinds(1) IN
    /\ Len(results) <= Len(owed)
    /\ \A i \in 1..Len(results) : results[i].kind = owed[i]
    /\ pc = "done" => Len(results) = Len(owed)

\* C16: a failed read aborts no other read: the results of earlier reads
\* stay as they are, after a failure the parser is idle again and not
\* exhausted, and every read, whatever failed before it, has the outcome
\* its own tokens decide.
ReadsIndependent ==
    /\ []ResultsAsOwed
    /\ [][/\ results' = results
             \/ \E x \in {results'[Len(results')]} : results' = Append(results, x)
          /\ (results' # results /\ results'[Len(results')].kind # "Ok") =>
                 (pc' = "idle" /\ tokenizer' = tokenizer)]_vars

\* an unexpected keyword, then a lexical error, then a group returned by
\* the third read
ReadsIndependentWitness ==
    /\ pc = "done"
    /\ Len(results) = 3
    /\ results[1].kind = "Unexpected"
    /\ results[2].kind = "TokenError"
    /\ results[3] = OkExpr(ListVal(<<Atom("Identifier(a)")>>))

IsList(result) == result.kind = "Ok" /\ result.expr.kind = "ListVal"

\* C17: the read that returns a completed top-level List consumes the tokens
\* from its opening delimiter up to and including the matching closer and
\* no later token; the next read pulls the token right after it, and the
\* parser is exhausted only when every token has been consumed.
ListReadExact ==
    [][/\ (results' # results /\ IsList(results'[Len(results')])) =>
            /\ pc = "reading"
            /\ cursor' = cursor + 1
            /\ cursor' = ReadEnd(ReadStart)
            /\ tokenizer[cursor'].tok = "CloseParen"
            /\ Flatten(results'[Len(results')].expr)
                   = SubSeq(Toks(tokenizer), ReadStart, cursor')
            /\ tokenizer' = tokenizer
            /\ pc' = "idle"
       /\ (pc = "idle" /\ cursor < Len(tokenizer)) => cursor' = cursor + 1
       /\ pc' = "done" => cursor' = Len(tokenizer)]_vars

\* two groups returned by two reads, the first of them with a nested group
ListReadExactWitness ==
    /\ pc = "done"
    /\ Len(results) = 2
    /\ IsList(results[1])
    /\ results[1].expr.children # <<>>
    /\ results[1].expr.children[1].kind = "ListVal"
    /\ IsList(results[2])

\* the number of groups open after cursor items of the read in progress
OpenGroups ==
    DepthAt(SubSeq(Toks(tokenizer), ReadStart, cursor), cursor - ReadStart + 1)

\* C18, as the code has it: during a read the depth of the stack is the
\* number of groups open inside the top-level group of the read, one less
\* than the number of groups open, because the top-level opening delimiter
\* is consumed before the stack exists.
StackDepthBelowOpenGroups ==
    pc = "reading" => Len(stack) = OpenGroups - 1

\* C18, as stated: during a read the depth of the stack equals the number
\* of groups open at that point of the token stream.
StackDepthIsOpenGroups ==
    pc = "reading" => Len(stack) = OpenGroups

\* a read that is not the first one has two groups open after an inner
\* group was closed
StackDepthWitness ==
    /\ pc = "reading"
    /\ results # <<>>
    /\ Len(stack) = 1
    /\ current_frame # <<>>
    /\ current_frame[1].kind = "ListVal"

(***************************************************************************)
(* Scanner properties                                                      *)
(***************************************************************************)
GroupDelimiters == {"(", ")", "[", "]", "{", "}"}

RECURSIVE SkipBlank(_)
SkipBlank(text) ==
    IF text # <<>> /\ is_whitespace(text[1]) THEN SkipBlank(Tail(text)) ELSE text

RECURSIVE UpToDelimiter(_)
UpToDelimiter(text) ==
    IF text = <<>> \/ is_whitespace(text[1]) \/ text[1] \in GroupDelimiters THEN <<>>
    ELSE <<text[1]>> \o UpToDelimiter(Tail(text))

\* the first run of characters of the buffer that a delimiter, whitespace or
\* end of input ends, and the byte offset where it starts
FirstWord == UpToDelimiter(SkipBlank(source))

FirstWordStart == Len(UTF8(source)) - Len(UTF8(SkipBlank(source)))

\* the first request of the stream has returned
FirstRequestDone == status # "running" \/ emitted # <<>>

AllIn(text, chars) == \A i \in 1..Len(text) : text[i] \in chars

\* optional sign, then a digit
BeginsLikeNumber(w) ==
    \/ w # <<>> /\ w[1] \in AsciiDigits
    \/ Len(w) >= 2 /\ w[1] \in {"+", "-"} /\ w[2] \in AsciiDigits

Body(w) == IF w # <<>> /\ w[1] \in {"+", "-"} THEN Tail(w) ELSE w

\* [sign] digit+
IsInteger(w) == Body(w) # <<>> /\ AllIn(Body(w), AsciiDigits)

\* [sign] digit+ / digit+
IsRational(w) ==
    \E k \in 2..(Len(Body(w)) - 1) :
        /\ Body(w)[k] = "/"
        /\ AllIn(SubSeq(Body(w), 1, k - 1), AsciiDigits)
        /\ AllIn(SubSeq(Body(w), k + 1, Len(Body(w))), AsciiDigits)

\* [sign] digit+ . digit* [(e|E) digit+]   or   [sign] digit+ (e|E) digit+
IsFloat(w) ==
    LET b == Body(w) IN
    \E k \in 1..Len(b) :
        /\ AllIn(SubSeq(b, 1, k), AsciiDigits)
        /\ \/ /\ Len(b) > k /\ b[k + 1] = "."
              /\ \E m \in (k + 1)..Len(b) :
                    /\ AllIn(SubSeq(b, k + 2, m), AsciiDigits)
                    /\ \/ m = Len(b)
                       \/ /\ Len(b) >= m + 2
                          /\ b[m + 1] \in {"e", "E"}
                          /\ AllIn(SubSeq(b, m + 2, Len(b)), AsciiDigits)
           \/ /\ Len(b) >= k + 2
              /\ b[k + 1] \in {"e", "E"}
              /\ AllIn(SubSeq(b, k + 2, Len(b)), AsciiDigits)

WellFormedNumber(w) == IsInteger(w) \/ IsFloat(w) \/ IsRational(w)

\* the first token is one Identifier that is the whole first word
FirstIsWholeIdentifier ==
    /\ emitted # <<>>
    /\ emitted[1].ty = "Identifier"
    /\ emitted[1].val = FirstWord
    /\ emitted[1].source = FirstWord
    /\ emitted[1].span = <<FirstWordStart, FirstWordStart + Len(UTF8(FirstWord))>>

\* C5: a token that begins like a number (optional sign, then a digit) and
\* is not a well-formed Integer, Float or Rational lexes as exactly one
\* Identifier spanning the whole text; it is no Error token and is not split.
NumericDegrade ==
    (FirstRequestDone /\ BeginsLikeNumber(FirstWord) /\ ~WellFormedNumber(FirstWord))
        => FirstIsWholeIdentifier

\* a numeric character outside ASCII
ForeignDigit(c) == is_numeric(c) /\ c \notin AsciiDigits

\* C5 on the buffers whose digits are all ASCII, where no conversion fails
NumericDegradeAscii ==
    (/\ FirstRequestDone
     /\ BeginsLikeNumber(FirstWord)
     /\ ~WellFormedNumber(FirstWord)
     /\ \A i \in 1..Len(FirstWord) : ~ForeignDigit(FirstWord[i]))
        => FirstIsWholeIdentifier

RECURSIVE Collect(_, _, _)
\* the tokens a stream over src yields from cursor st until it ends
Collect(src, st, skip) ==
    LET r == TokenStream_next(src, st, skip) IN
    IF r.out = "Some" THEN <<r.token>> \o Collect(src, r.st, skip) ELSE <<>>

Classes(tokens) == [i \in 1..Len(tokens) |-> tokens[i].ty]

\* every opening bracket written "(" and every closing bracket ")"
Parenthesized(text) ==
    [i \in 1..Len(text) |->
        IF text[i] \in {"(", "[", "{"} THEN "("
        ELSE IF text[i] \in {")", "]", "}"} THEN ")"
        ELSE text[i]]

\* C6: the three bracket families are interchangeable: a buffer and the same
\* buffer with its brackets replaced by others of the same direction lex to
\* the same sequence of token classes.
BracketsInterchangeable ==
    status = "done" =>
        Classes(emitted) = Classes(Collect(Parenthesized(source), LexerNew, TRUE))

IsComment(t) == t.ty = "Comment"
NotComment(t) == t.ty # "Comment"

\* C7: with comment suppression the stream never emits a Comment token, and
\* what it emits is exactly the non-Comment tokens of the unsuppressed stream
\* over the same buffer, in order, with the same classes and spans.
CommentSuppression ==
    skip_comments =>
        /\ \A t \in Emitted : t.ty # "Comment"
        /\ status # "running" =>
               emitted = SelectSeq(Collect(source, LexerNew, FALSE), NotComment)

\* a suppressing stream has ended after emitting a token that follows a
\* comment in the buffer
CommentSuppressionWitness ==
    /\ skip_comments
    /\ status = "done"
    /\ emitted # <<>>
    /\ IsComment(Collect(source, LexerNew, FALSE)[1])

\* the decimal literals of the inputs outside the isize range
OutOfNativeRange ==
    { <<"9", "2", "2", "3", "3", "7", "2", "0", "3", "6", "8", "5", "4", "7", "7", "5", "8", "0", "8">>,
      <<"-", "9", "2", "2", "3", "3", "7", "2", "0", "3", "6", "8", "5", "4", "7", "7", "5", "8", "0", "9">> }

\* the literal's value is within the isize range: at most 18 digits, or not
\* one of the two listed literals next to the range
InNativeRange(w) == Len(Body(w)) <= 18 \/ (Len(Body(w)) = 19 /\ w \notin OutOfNativeRange)

ZeroLiterals == {<<"0">>, <<"-", "0">>, <<"+", "0">>}

\* the value a decimal literal without leading zeros denotes
DecimalValue(w) ==
    IF w \in ZeroLiterals THEN <<"Small", "+", "10", "0">>
    ELSE <<IF InNativeRange(w) THEN "Small" ELSE "Big",
           IF w[1] = "-" THEN "-" ELSE "+", "10">> \o Body(w)

\* C8: a decimal integer literal lexes as a native-width Integer exactly
\* when its value is within the isize range and as an arbitrary-precision
\* Integer of that value otherwise; 0 and -0 are native-width zero.
IntegerWidth ==
    (FirstRequestDone /\ IsInteger(FirstWord) /\ Len(Body(FirstWord)) <= 19) =>
        /\ emitted # <<>>
        /\ emitted[1].ty = "IntegerLiteral"
        /\ emitted[1].source = FirstWord
        /\ emitted[1].val = DecimalValue(FirstWord)

\* the literal one below isize::MIN was lexed as a negative
\* arbitrary-precision Integer
IntegerWidthWitness ==
    /\ emitted # <<>>
    /\ emitted[1].ty = "IntegerLiteral"
    /\ emitted[1].val[1] = "Big"
    /\ emitted[1].val[2] = "-"

RadixDigits(c) ==
    CASE c = "x" -> AsciiDigits \cup {"a", "b", "c", "d", "e", "f",
                                      "A", "B", "C", "D", "E", "F"}
      [] c = "o" -> {"0", "1", "2", "3", "4", "5", "6", "7"}
      [] c = "b" -> {"0", "1"}

\* #x, #o or #b followed by one or more digits of that radix
IsRadixLiteral(w) ==
    /\ Len(w) >= 3
    /\ w[1] = "#"
    /\ w[2] \in {"x", "o", "b"}
    /\ AllIn(SubSeq(w, 3, Len(w)), RadixDigits(w[2]))

\* C9: a #x, #o or #b literal whose remaining characters are all digits of
\* the radix lexes as an Integer with the value of those digits, whatever
\* its magnitude; the malformed-integer error is for malformed digits only.
RadixArbitraryPrecision ==
    (FirstRequestDone /\ IsRadixLiteral(FirstWord)) =>
        /\ emitted # <<>>
        /\ emitted[1].ty = "IntegerLiteral"
        /\ SubSeq(emitted[1].val, 4, Len(emitted[1].val))
               = SubSeq(FirstWord, 3, Len(FirstWord))

\* C9 on the literals within the isize range
RadixWithinNativeRange ==
    (/\ FirstRequestDone
     /\ IsRadixLiteral(FirstWord)
     /\ FitsIsize(FALSE, SubSeq(FirstWord, 3, Len(FirstWord)),
                  CASE FirstWord[2] = "x" -> 16 [] FirstWord[2] = "o" -> 8
                    [] FirstWord[2] = "b" -> 2)) =>
        /\ emitted # <<>>
        /\ emitted[1].ty = "IntegerLiteral"
        /\ emitted[1].val[1] = "Small"
        /\ SubSeq(emitted[1].val, 4, Len(emitted[1].val))
               = SubSeq(FirstWord, 3, Len(FirstWord))

(***************************************************************************)
(* String literal properties, on buffers that begin with the opening quote *)
(***************************************************************************)
RECURSIVE EscapedAt(_, _)
\* character i is the second character of an escape pair
EscapedAt(text, i) == i > 1 /\ text[i - 1] = "\\" /\ ~EscapedAt(text, i - 1)

\* character i is the backslash of an escape pair
StartsEscape(text, i) == text[i] = "\\" /\ ~EscapedAt(text, i)

\* the quotes after the opening one that are not the second of a pair
Closers(text) == {i \in 2..Len(text) : text[i] = "\"" /\ ~EscapedAt(text, i)}

Closer(text) == CHOOSE i \in Closers(text) : \A j \in Closers(text) : i <= j

RecognizedEscapes == {"\"", "\\", "t", "n", "r", "0"}

\* every backslash of a pair among the first n characters has a recognized
\* character after it
OnlyRecognized(text, n) ==
    \A i \in 2..n : (StartsEscape(text, i) /\ i < Len(text)) => text[i + 1] \in RecognizedEscapes

Denoted(c) ==
    CASE c = "t" -> "\t" [] c = "n" -> "\n" [] c = "r" -> "\r" [] c = "0" -> "NUL"
      [] OTHER -> c

RECURSIVE Decoded(_, _, _)
\* the content of characters i..n: a pair's backslash gives nothing, its
\* second character gives what it denotes, any other character itself
Decoded(text, i, n) ==
    IF i > n THEN <<>>
    ELSE (IF StartsEscape(text, i) THEN <<>>
          ELSE IF EscapedAt(text, i) THEN <<Denoted(text[i])>>
          ELSE <<text[i]>>) \o Decoded(text, i + 1, n)

OpensString == source # <<>> /\ source[1] = "\""

\* C11: a string literal with a closing quote and only recognized escapes
\* lexes as a String token whose content is the text between the quotes
\* with each escape pair replaced by the character it denotes; it ends at
\* the first quote that is not the second character of a pair, and its span
\* covers both quotes.
StringDecoding ==
    (/\ FirstRequestDone /\ OpensString /\ Closers(source) # {}
     /\ OnlyRecognized(source, Closer(source))) =>
        /\ emitted # <<>>
        /\ emitted[1].ty = "StringLiteral"
        /\ emitted[1].val = Decoded(source, 2, Closer(source) - 1)
        /\ emitted[1].source = SubSeq(source, 1, Closer(source))
        /\ emitted[1].span = <<0, Len(UTF8(SubSeq(source, 1, Closer(source))))>>

\* a String token was emitted whose content is an escaped quote, a decoded
\* newline and a two-byte character
StringDecodingWitness ==
    /\ emitted # <<>>
    /\ emitted[1].ty = "StringLiteral"
    /\ \E c \in {"\"", "\n"} : emitted[1].val = <<c, Lambda>>
    /\ emitted[1].span = <<0, 6>>

\* the first item of the scanner has been returned
FirstItemDone == status # "running" \/ emitted # <<>>

Unterminated == OpensString /\ Closers(source) = {}

\* C12: a string literal without closing quote and without unrecognized
\* escape ends in the incomplete-string error, spanning from the opening
\* quote to the end of input, whatever the last characters of the buffer.
IncompleteStringAtEnd ==
    (FirstItemDone /\ Unterminated /\ OnlyRecognized(source, Len(source))) =>
        /\ emitted # <<>>
        /\ emitted[1].out = "Err"
        /\ emitted[1].ty = "IncompleteString"
        /\ emitted[1].span = <<0, Len(UTF8(source))>>

\* C12 on the buffers that do not end in the backslash of a pair
IncompleteStringComplete ==
    (/\ FirstItemDone /\ Unterminated /\ OnlyRecognized(source, Len(source))
     /\ ~StartsEscape(source, Len(source))) =>
        /\ emitted # <<>>
        /\ emitted[1].out = "Err"
        /\ emitted[1].ty = "IncompleteString"
        /\ emitted[1].span = <<0, Len(UTF8(source))>>

\* the pairs with an unrecognized second character
BadEscapes(text, n) ==
    {i \in 2..n : StartsEscape(text, i) /\ i < Len(text)
                     /\ text[i + 1] \notin RecognizedEscapes}

\* C12, second part: an escape other than the six recognized ones, met
\* before any closing quote, ends in the invalid-escape error.
InvalidEscapeReported ==
    (/\ FirstItemDone /\ OpensString
     /\ \E i \in BadEscapes(source, Len(source)) : \A j \in Closers(source) : i < j) =>
        /\ emitted # <<>>
        /\ emitted[1].out = "Err"
        /\ emitted[1].ty = "InvalidEscape"

(***************************************************************************)
(* Sign dispatch                                                           *)
(***************************************************************************)
NumberClasses == {"IntegerLiteral", "NumberLiteral", "FractionLiteral"}

IsDigit(c) == is_numeric(c)

Trimmed == SkipBlank(source)

SignFirst(sign) == Trimmed # <<>> /\ Trimmed[1] = sign

DigitSecond == Len(Trimmed) >= 2 /\ IsDigit(Trimmed[2])

\* the byte offset where the token after a one-character first token starts
SecondStart == Len(UTF8(source)) - Len(UTF8(SkipBlank(Tail(Trimmed))))

\* the first token starts at the sign and covers the whole first word; it
\* is a number when the word is a well-formed one
SignedNumber ==
    /\ emitted # <<>>
    /\ emitted[1].span = <<FirstWordStart, FirstWordStart + Len(UTF8(FirstWord))>>
    /\ emitted[1].source = FirstWord
    /\ WellFormedNumber(FirstWord) => emitted[1].ty \in NumberClasses

\* the first token is the Identifier "+" alone and the next token starts at
\* the next character that is not blank
BarePlus ==
    /\ emitted # <<>>
    /\ emitted[1].ty = "Identifier"
    /\ emitted[1].val = <<"+">>
    /\ emitted[1].source = <<"+">>
    /\ emitted[1].span = <<FirstWordStart, FirstWordStart + 1>>
    /\ Len(emitted) >= 2 => emitted[2].span[1] = SecondStart

\* C13: a sign immediately followed by a digit starts a signed number whose
\* span includes the sign; "+" followed by anything else is the Identifier
\* "+" alone; "-" followed by a non-digit is read as a generic word that
\* covers "-" and the rest of the word.
SignDispatch ==
    FirstRequestDone =>
        /\ ((SignFirst("+") \/ SignFirst("-")) /\ DigitSecond) => SignedNumber
        /\ (SignFirst("+") /\ ~DigitSecond) => BarePlus
        /\ (SignFirst("-") /\ ~DigitSecond) => FirstIsWholeIdentifier

\* C13 on the buffers whose first word holds ASCII digits only
SignDispatchAscii ==
    (\A i \in 1..Len(FirstWord) : ~ForeignDigit(FirstWord[i])) => SignDispatch

(***************************************************************************)
(* Character literal properties, on buffers that begin with #\             *)
(***************************************************************************)
OpensCharacter == Len(source) >= 2 /\ source[1] = "#" /\ source[2] = "\\"

\* the text of the literal after #\: the character that follows, whatever
\* it is, and then the characters up to a delimiter or whitespace
CharBody ==
    IF Len(source) < 3 THEN <<>>
    ELSE <<source[3]>> \o UpToDelimiter(SubSeq(source, 4, Len(source)))

NamedChars ==
    { <<<<"s", "p", "a", "c", "e">>, " ">>, <<<<"S", "P", "A", "C", "E">>, " ">>,
      <<<<"t", "a", "b">>, "\t">>, <<<<"T", "A", "B">>, "\t">>,
      <<<<"n", "e", "w", "l", "i", "n", "e">>, "\n">>,
      <<<<"N", "E", "W", "L", "I", "N", "E">>, "\n">>,
      <<<<"r", "e", "t", "u", "r", "n">>, "\r">>,
      <<<<"R", "E", "T", "U", "R", "N">>, "\r">> }

HexDigits == AsciiDigits \cup {"a", "b", "c", "d", "e", "f", "A", "B", "C", "D", "E", "F"}

\* u followed by one or more hexadecimal digits
IsCodePoint(body) ==
    Len(body) >= 2 /\ body[1] = "u" /\ AllIn(Tail(body), HexDigits)

Invalid == <<"invalid">>

\* the character a literal's text denotes, or Invalid
DenotedChar(body) ==
    IF \E n \in NamedChars : n[1] = body
    THEN <<(CHOOSE n \in NamedChars : n[1] = body)[2]>>
    ELSE IF Len(body) = 1 THEN body
    ELSE IF IsCodePoint(body) THEN <<"U+">> \o Canon(StripZeros(Tail(body)))
    ELSE Invalid

FirstIsCharacter(body) ==
    /\ emitted # <<>>
    /\ IF DenotedChar(body) = Invalid
       THEN emitted[1].out = "Err" /\ emitted[1].ty = "InvalidCharacter"
       ELSE /\ emitted[1].out = "Ok"
            /\ emitted[1].ty = "CharacterLiteral"
            /\ emitted[1].val = DenotedChar(body)
            /\ emitted[1].span = <<0, 2 + Len(UTF8(body))>>

\* C14: a #\ character literal lexes as one Character token whose span
\* covers the whole literal: the names decode to their characters, a single
\* literal character to itself, a code-point escape to its code point, and
\* any other text after #\ is the invalid-character error.
CharacterLiterals ==
    (FirstItemDone /\ OpensCharacter) => FirstIsCharacter(CharBody)

\* the literal's text begins with #\ again
RepeatsPrefix(body) == Len(body) >= 2 /\ body[1] = "#" /\ body[2] = "\\"

\* C14 on the literals whose text does not begin with #\ again
CharacterLiteralsPlain ==
    (FirstItemDone /\ OpensCharacter /\ ~RepeatsPrefix(CharBody))
        => FirstIsCharacter(CharBody)

(***************************************************************************)
(* Lexical errors in the token stream                                      *)
(***************************************************************************)
RECURSIVE Scan(_, _)
\* the items the bare scanner yields over src from cursor st until it ends
Scan(src, st) ==
    LET r == Lexer_next(src, st) IN
    IF r.out \in {"Ok", "Err"} THEN <<LexerItem(r)>> \o Scan(src, r.st) ELSE <<>>

\* class and span of what the stream owes for a scanner item
Owed(item) == <<IF item.out = "Err" THEN "Error" ELSE item.ty, item.span>>

Kept(item) == ~(skip_comments /\ item.out = "Ok" /\ item.ty = "Comment")

OwedTokens ==
    LET items == SelectSeq(Scan(source, LexerNew), Kept) IN
    [i \in 1..Len(items) |-> Owed(items[i])]

\* where token i may start: the end of the token before it
PrevEnd(i) == IF i = 1 THEN 0 ELSE emitted[i - 1].span[2]

\* the bytes from offset a to offset b are all whitespace
BlankBetween(a, b) ==
    \A k \in (a + 1)..b : is_whitespace(UTF8(source)[k][1])

\* C15: every lexical error is delivered as exactly one Error token with
\* the span of the text consumed for it, and the stream continues: the next
\* request resumes at the first unconsumed character, and the stream ends
\* only when the whole input is consumed.
ErrorDelivery ==
    /\ \A i \in 1..Len(emitted) :
           /\ PrevEnd(i) <= emitted[i].span[1]
           /\ ~skip_comments => BlankBetween(PrevEnd(i), emitted[i].span[1])
    /\ (status = "running" /\ emitted # <<>>) =>
           lexer.token_end = emitted[Len(emitted)].span[2]
    /\ status = "done" =>
           /\ lexer.token_end = Len(UTF8(source))
           /\ [i \in 1..Len(emitted) |-> <<emitted[i].ty, emitted[i].span>>] = OwedTokens

\* a stream has ended after two Error tokens with another token between
\* them, the second error starting where the scan resumed
ErrorDeliveryWitness ==
    /\ status = "done"
    /\ Len(emitted) = 3
    /\ emitted[1].ty = "Error"
    /\ emitted[2].ty # "Error"
    /\ emitted[2].span[1] = emitted[1].span[2]
    /\ emitted[3].ty = "Error"

(***************************************************************************)
(* Generic word reading                                                    *)
(***************************************************************************)
\* the characters of the alphabets here that begin a generic word
WordStarters == {"i", "f", "I", "e", "a", ".", "/", "\\", Lambda}

StartsWord == Trimmed # <<>> /\ Trimmed[1] \in WordStarters

\* where a word that starts at the first character of text stops: before
\* the first character of enders that is not the second of a backslash pair
WordStops(text, enders) ==
    {i \in 1..Len(text) : text[i] \in enders /\ ~EscapedAt(text, i)}

WordOf(text, enders) ==
    IF WordStops(text, enders) = {} THEN text
    ELSE SubSeq(text, 1,
                (CHOOSE i \in WordStops(text, enders) :
                    \A j \in WordStops(text, enders) : i <= j) - 1)

WordEnders == GroupDelimiters \cup {" ", "\n", "\t", "\r", "'"}

\* the first token is the word w: a reserved-word token if w is in the
\* reserved-word table, otherwise an Identifier carrying w
FirstIsWord(w) ==
    /\ emitted # <<>>
    /\ emitted[1].source = w
    /\ emitted[1].span = <<FirstWordStart, FirstWordStart + Len(UTF8(w))>>
    /\ IF w \in ReservedText
       THEN emitted[1].ty = WordType(w) /\ emitted[1].ty # "Identifier"
       ELSE emitted[1].ty = "Identifier" /\ emitted[1].val = w

\* C19: generic word reading consumes up to, and not including, the first
\* group delimiter, whitespace character or unescaped quote tick, a
\* backslash and the character after it being consumed together; the exact
\* text is a reserved-word token if it matches the table case-sensitively
\* and an Identifier carrying the text otherwise.
WordReading ==
    (FirstRequestDone /\ StartsWord) => FirstIsWord(WordOf(Trimmed, WordEnders))

\* C19 with the delimiters the loop of read_word tests: round and square
\* brackets only
WordReadingRoundSquare ==
    (FirstRequestDone /\ StartsWord) =>
        FirstIsWord(WordOf(Trimmed, WordEnders \ {"{", "}"}))

(***************************************************************************)
(* Number reading that aborts                                              *)
(***************************************************************************)
\* generic word reading started at the first character of the first token
WordFromStart == read_word(source, start_token(consume_whitespace(source, LexerNew)))

\* the first token came out of number reading and is no number
NumberAborted ==
    /\ BeginsLikeNumber(Trimmed)
    /\ emitted # <<>>
    /\ emitted[1].ty \notin NumberClasses

FirstIsWordFromStart ==
    /\ WordFromStart.out = "Ok"
    /\ emitted[1].ty = WordFromStart.ty
    /\ emitted[1].val = WordFromStart.val
    /\ emitted[1].span = span(WordFromStart.st)

\* C20: when number reading aborts, the token is the one generic word
\* reading gives when started at the token's first character: same class,
\* same text, same end, whichever character caused the abort.
NumberAbortIsWord == NumberAborted => FirstIsWordFromStart

\* C20 on the buffers without quote tick and backslash
NumberAbortIsWordPlain ==
    (NumberAborted /\ \A i \in 1..Len(source) : source[i] \notin {"'", "\\"})
        => FirstIsWordFromStart

(***************************************************************************)
(* Floats and rationals                                                    *)
(***************************************************************************)
\* digits first, then only digits, points and exponent markers
FloatLike(w) ==
    /\ Body(w) # <<>>
    /\ Body(w)[1] \in AsciiDigits
    /\ AllIn(Body(w), AsciiDigits \cup {".", "e", "E"})

\* the first token covers the whole first word
FirstCoversWord ==
    /\ emitted[1].source = FirstWord
    /\ emitted[1].span = <<FirstWordStart, FirstWordStart + Len(UTF8(FirstWord))>>

\* C21: the first token is a Float exactly when the text up to the next
\* delimiter, whitespace or end of input is an optional sign, digits, and
\* then a point with digits and/or one exponent marker with digits; a
\* second marker, a second point, a point after the exponent or a dangling
\* marker makes the whole text a word.
FloatExactly ==
    FirstRequestDone =>
        /\ (emitted # <<>> /\ emitted[1].ty = "NumberLiteral") <=> IsFloat(FirstWord)
        /\ IsFloat(FirstWord) => FirstCoversWord
        /\ (FloatLike(FirstWord) /\ ~IsFloat(FirstWord) /\ ~IsInteger(FirstWord))
               => FirstIsWholeIdentifier

NoBrace == \A i \in 1..Len(source) : source[i] \notin {"{", "}"}

\* C21 on the buffers without braces
FloatExactlyRoundSquare == NoBrace => FloatExactly

RECURSIVE NoLeadingZeros(_)
NoLeadingZeros(ds) ==
    IF Len(ds) > 1 /\ ds[1] = "0" THEN NoLeadingZeros(Tail(ds)) ELSE ds

\* the value of a decimal integer text: sign, and digits without leading
\* zeros
IntegerValueOf(w) ==
    DecimalValue((IF w[1] \in {"+", "-"} THEN <<w[1]>> ELSE <<>>) \o NoLeadingZeros(Body(w)))

SlashAt(w) == CHOOSE k \in 1..Len(w) : w[k] = "/"

\* C22: an optional sign and digits, a slash and one or more digits, up to
\* the next delimiter, whitespace or end of input, lex as one Rational
\* token whose numerator and denominator are the integer values of the
\* texts before and after the slash: not reduced, the sign on the
\* numerator, any non-empty digit string as denominator, zero included.
RationalLiteral ==
    (FirstRequestDone /\ IsRational(FirstWord)) =>
        /\ emitted # <<>>
        /\ emitted[1].ty = "FractionLiteral"
        /\ FirstCoversWord
        /\ emitted[1].val =
               IntegerValueOf(SubSeq(FirstWord, 1, SlashAt(FirstWord) - 1))
                   \o <<"/">>
                   \o IntegerValueOf(SubSeq(FirstWord, SlashAt(FirstWord) + 1, Len(FirstWord)))

\* C22 on the buffers without braces
RationalLiteralRoundSquare == NoBrace => RationalLiteral

(***************************************************************************)
(* Long sigils                                                             *)
(***************************************************************************)
LongSigils ==
    { <<<<"#", ",", "@">>, "UnquoteSpliceSyntax">>,
      <<<<"#", ",">>, "UnquoteSyntax">>,
      <<<<"#", "'">>, "QuoteSyntax">>,
      <<<<"#", Backtick>>, "QuasiQuoteSyntax">> }

IsPrefix(p, text) == Len(p) <= Len(text) /\ SubSeq(text, 1, Len(p)) = p

\* the sigils the scanner is positioned at
SigilsHere == {g \in LongSigils : IsPrefix(g[1], Trimmed)}

\* the longest of them: #,@ before #,
SigilHere ==
    CHOOSE g \in SigilsHere : \A h \in SigilsHere : Len(h[1]) <= Len(g[1])

FirstIsSigil(g) ==
    /\ emitted # <<>>
    /\ emitted[1].ty = g[2]
    /\ emitted[1].source = g[1]
    /\ emitted[1].span = <<FirstWordStart, FirstWordStart + Len(g[1])>>

\* C23: when the scanner is positioned at a long sigil, the next token is
\* that sigil's token and covers exactly the sigil's characters, whatever
\* character follows.
LongSigilAlways ==
    (FirstRequestDone /\ SigilsHere # {}) => FirstIsSigil(SigilHere)

\* C23 for a sigil followed by whitespace, a round or square bracket or the
\* end of input
LongSigilDelimited ==
    (/\ FirstRequestDone /\ SigilsHere # {}
     /\ UpToDelimiter(Trimmed) = SigilHere[1]) => FirstIsSigil(SigilHere)

(***************************************************************************)
(* Order and cover of the spans                                            *)
(***************************************************************************)
\* byte k of the buffer lies inside the span of a token
InSomeSpan(k) ==
    \E i \in 1..Len(emitted) : emitted[i].span[1] < k /\ k <= emitted[i].span[2]

\* the bytes the scanner has passed: all of them once the stream has ended
Passed ==
    IF status = "done" THEN Len(UTF8(source))
    ELSE IF emitted = <<>> THEN 0
    ELSE emitted[Len(emitted)].span[2]

\* C28: each token starts at or after the end of the token before it, and
\* with comment suppression off every byte the scanner has passed that is
\* in no token span is whitespace.
SpansOrderedAndCovering ==
    /\ \A i \in 1..Len(emitted) :
           /\ emitted[i].span[1] <= emitted[i].span[2]
           /\ i > 1 => emitted[i - 1].span[2] <= emitted[i].span[1]
    /\ ~skip_comments =>
           \A k \in 1..Passed : ~InSomeSpan(k) => is_whitespace(UTF8(source)[k][1])

\* comments kept: a token, blanks, a comment with a two-byte character in
\* it, and the stream has ended with blanks left outside the spans
SpansCoveringWitness ==
    /\ ~skip_comments
    /\ status = "done"
    /\ Len(emitted) = 2
    /\ emitted[2].ty = "Comment"
    /\ emitted[1].span[2] < emitted[2].span[1]
    /\ emitted[2].span[2] - emitted[2].span[1] = 3
    /\ \E k \in 1..Len(UTF8(source)) : ~InSomeSpan(k)

(***************************************************************************)
(* The fallback arm of the scanner                                         *)
(***************************************************************************)
\* C29: no scanner step reports an unexpected character: every item is a
\* token or an error of another kind, and a buffer that begins with a
\* dollar sign gives an Identifier that begins with it.
NoUnexpectedChar ==
    /\ \A i \in 1..Len(emitted) :
           /\ emitted[i].out \in {"Ok", "Err"}
           /\ emitted[i].ty # "UnexpectedChar"
    /\ (emitted # <<>> /\ source[1] = "$") =>
           /\ emitted[1].out = "Ok"
           /\ emitted[1].ty = "Identifier"
           /\ emitted[1].val[1] = "$"
           /\ emitted[1].span[1] = 0

\* the text of lexer_tests::test_unexpected_char scanned to its end
NoUnexpectedCharWitness ==
    /\ source = <<"(", "$", ")">>
    /\ status = "done"
    /\ Len(emitted) = 3
    /\ emitted[2].out = "Ok"
    /\ emitted[2].ty = "Identifier"
    /\ emitted[2].val = <<"$">>
    /\ emitted[2].span = <<1, 2>>

(***************************************************************************)
(* Progress of the scanner                                                 *)
(***************************************************************************)
NonEmptySpans == \A i \in 1..Len(emitted) : emitted[i].span[1] < emitted[i].span[2]

\* a request that is answered with a token has moved the scanner forward and
\* the token ends where the scanner stands
RequestAdvances ==
    emitted' # emitted =>
        /\ lexer'.pos > lexer.pos
        /\ emitted'[Len(emitted')].span[2] > ByteOffset(source, lexer.pos)

\* no more tokens than the buffer has bytes
WithinBuffer == Len(emitted) <= Len(UTF8(source))

\* the stream has reported end of input or can take another request
EndedOrRequestable == status = "done" \/ status = "running"

\* C26: every token or error returned covers at least one byte and every
\* request answered with one moves the scanner forward, so a buffer of n
\* bytes gives at most n tokens; and the stream takes requests until it
\* reports end of input.
ScanningTerminates ==
    /\ []NonEmptySpans
    /\ []WithinBuffer
    /\ []EndedOrRequestable
    /\ [][RequestAdvances]_vars

NoForeignDigit == \A i \in 1..Len(source) : ~ForeignDigit(source[i])

\* the same for buffers without a digit outside ASCII
ScanningTerminatesAscii ==
    /\ []NonEmptySpans
    /\ []WithinBuffer
    /\ [](NoForeignDigit => EndedOrRequestable)
    /\ [][RequestAdvances]_vars

\* under SpecScanFair: every stream reaches end of input
ScanningReachesEnd == <>(status = "done")

\* under SpecScanFair: every stream of a buffer without a digit outside
\* ASCII reaches end of input
ScanningReachesEndAscii == NoForeignDigit => <>(status = "done")

\* an identifier directly followed by an apostrophe: the word, then the
\* apostrophe as a token of its own, then end of input
ScanningTerminatesWitness ==
    /\ source = <<"a", "'">>
    /\ status = "done"
    /\ Len(emitted) = 2
    /\ emitted[1].span = <<0, 1>>
    /\ emitted[2].span = <<1, 2>>

(***************************************************************************)
(* Progress of the parser                                                  *)
(***************************************************************************)
\* tokens are pulled one at a time, in order, each once
ForwardOnly == cursor' = cursor \/ cursor' = cursor + 1

\* an invocation pulls a token unless it reports end of input, and it
\* reports end of input only when the stream has none left
InvocationConsumes ==
    pc = "idle" =>
        \/ cursor' = cursor + 1
        \/ pc' = "done" /\ cursor = Len(tokenizer) /\ results' = results

\* every result has cost a token of its own
ResultsWithinTokens == Len(results) <= cursor /\ cursor <= Len(tokenizer)

\* C27: every invocation of the parser pulls at least one token or reports
\* end of input, the tokens are pulled in order and each once, there are
\* never more results than tokens pulled, and the parser reports end of
\* input.
ParserTerminates ==
    /\ []ResultsWithinTokens
    /\ [][ForwardOnly /\ InvocationConsumes]_vars
    /\ <>(pc = "done")

\* six tokens pulled for three results, an error among them, and then end
\* of input
ParserTerminatesWitness ==
    /\ pc = "done"
    /\ cursor = 6
    /\ Len(results) = 3
    /\ results[1].kind = "Ok"
    /\ results[2].kind = "TokenError"
    /\ results[3].kind = "UnexpectedEOF"

(***************************************************************************)
(* A lexical error inside a group                                          *)
(***************************************************************************)
RECURSIVE ReadStarts(_)
\* the first items of the reads from item p on
ReadStarts(p) ==
    IF p > Len(tokenizer) THEN {}
    ELSE {p} \cup ReadStarts(ReadEnd(p) + 1)

\* which result the read that starts at item p gives
ResultOf(p) == Cardinality({t \in ReadStarts(1) : t <= p})

\* the reads of groups that meet a lexical error
FailedGroups ==
    {p \in ReadStarts(1) :
        /\ tokenizer[p] = OkItem("OpenParen")
        /\ ReadEnd(p) <= Len(tokenizer)
        /\ ~tokenizer[ReadEnd(p)].ok}

\* the closing delimiters that follow item e without a gap
ClosersAfter(e) ==
    {q \in (e + 1)..Len(tokenizer) :
        \A r \in (e + 1)..q : tokenizer[r] = OkItem("CloseParen")}

\* every group that met a lexical error gave that error, and each closing
\* delimiter left behind it a stray closer of its own
ErrorsWrappedClosersStray ==
    pc = "done" =>
        \A p \in FailedGroups :
            /\ results[ResultOf(p)] = TokenError(tokenizer[ReadEnd(p)].tok)
            /\ \A q \in ClosersAfter(ReadEnd(p)) :
                   /\ q \in ReadStarts(1)
                   /\ results[ResultOf(q)] = Unexpected("CloseParen")

\* C25: a lexical error met while a group is assembled is returned at once
\* as that error wrapped, with no token consumed past it and nothing of
\* the frames built so far; the next read starts with an empty stack at
\* the following token, so the closing delimiters of the abandoned group
\* are each reported as an unexpected token.
ErrorAbandonsGroup ==
    /\ []ErrorsWrappedClosersStray
    /\ [][/\ (pc = "reading" /\ cursor < Len(tokenizer) /\ ~tokenizer[cursor + 1].ok) =>
                 /\ results' = Append(results, TokenError(tokenizer[cursor + 1].tok))
                 /\ cursor' = cursor + 1
                 /\ pc' = "idle"
          /\ (pc = "idle" /\ pc' = "reading") =>
                 /\ cursor' = cursor + 1
                 /\ stack' = <<>>
                 /\ current_frame' = <<>>
          /\ (pc = "idle" /\ cursor < Len(tokenizer)
                 /\ tokenizer[cursor + 1] = OkItem("CloseParen")) =>
                 /\ results' = Append(results, Unexpected("CloseParen"))
                 /\ cursor' = cursor + 1
                 /\ pc' = "idle"]_vars

\* a lexical error two groups deep, then the two closing delimiters of the
\* abandoned groups each reported as unexpected
ErrorAbandonsGroupWitness ==
    /\ pc = "done"
    /\ tokenizer = <<OkItem("OpenParen"), OkItem("OpenParen"), ErrItem("InvalidEscape"),
                     OkItem("CloseParen"), OkItem("CloseParen")>>
    /\ results = <<TokenError("InvalidEscape"), Unexpected("CloseParen"),
                   Unexpected("CloseParen")>>

(***************************************************************************)
(* After an invalid string escape                                          *)
(***************************************************************************)
Least(S) == CHOOSE i \in S : \A j \in S : i <= j

\* the string that opens the buffer meets an unrecognized escape before any
\* closing quote
EscapeFails ==
    /\ OpensString
    /\ BadEscapes(source, Len(source)) # {}
    /\ \A j \in Closers(source) : Least(BadEscapes(source, Len(source))) < j

\* the backslash of that escape
BadAt == Least(BadEscapes(source, Len(source)))

\* class, payload and span of tokens, the span moved by off bytes
Shifted(tokens, off) ==
    [i \in 1..Len(tokens) |->
        <<tokens[i].ty, tokens[i].val, tokens[i].span[1] + off, tokens[i].span[2] + off>>]

\* the Error token ends right after the backslash, and what follows is
\* scanned as a buffer of its own would be
ErrorEndsAtBackslash ==
    /\ FirstRequestDone =>
           /\ emitted # <<>>
           /\ emitted[1].ty = "Error"
           /\ emitted[1].span = <<0, ByteOffset(source, BadAt)>>
    /\ status = "done" =>
           Shifted(Tail(emitted), 0)
               = Shifted(Collect(SubSeq(source, BadAt + 1, Len(source)), LexerNew,
                                 skip_comments),
                         ByteOffset(source, BadAt))

\* the quote that would have closed the string, and its byte offset
ClosingQuote == Least(Closers(source))
ClosingQuoteAt == ByteOffset(source, ClosingQuote - 1)

StartsString(t) == t.ty \in {"StringLiteral", "Error"} /\ t.source[1] = "\""

\* the characters at which a word, a number and a hash form end
TokenEnders(c) == c \in {"(", "[", ")", "]"} \/ is_whitespace(c)

RECURSIVE BetweenTokensAt(_, _, _, _)
\* the scanner, at character i of the text in the given mode, comes to
\* character q between tokens.  The modes: "free" between tokens, "word",
\* "hash", "comment", and for a number "int", "float" without and "floate"
\* with an exponent mark, and "rat" after the slash.
BetweenTokensAt(text, i, mode, q) ==
    IF i > q THEN FALSE
    ELSE IF i = q /\ mode = "free" THEN TRUE
    ELSE LET c == text[i]
             numeric_next == i < Len(text) /\ is_numeric(text[i + 1])
         IN
         CASE mode = "free" ->
                IF is_whitespace(c) THEN BetweenTokensAt(text, i + 1, "free", q)
                ELSE IF c \in {"(", "[", "{", ")", "]", "}", "'", Backtick}
                THEN BetweenTokensAt(text, i + 1, "free", q)
                ELSE IF c = ","
                THEN BetweenTokensAt(text,
                         IF i < Len(text) /\ text[i + 1] = "@" THEN i + 2 ELSE i + 1,
                         "free", q)
                ELSE IF c = ";" THEN BetweenTokensAt(text, i + 1, "comment", q)
                ELSE IF c = "\"" THEN FALSE
                ELSE IF c = "+"
                THEN BetweenTokensAt(text, i + 1, IF numeric_next THEN "int" ELSE "free", q)
                ELSE IF c = "-"
                THEN BetweenTokensAt(text, i + 1, IF numeric_next THEN "int" ELSE "word", q)
                ELSE IF c = "#" THEN BetweenTokensAt(text, i + 1, "hash", q)
                ELSE IF is_numeric(c) THEN BetweenTokensAt(text, i, "int", q)
                ELSE BetweenTokensAt(text, i, "word", q)
           [] mode = "comment" ->
                BetweenTokensAt(text, i + 1, IF c = "\n" THEN "free" ELSE "comment", q)
           [] mode = "word" ->
                IF TokenEnders(c) \/ c = "'" THEN BetweenTokensAt(text, i, "free", q)
                ELSE IF c = "\\" THEN BetweenTokensAt(text, i + 2, "word", q)
                ELSE BetweenTokensAt(text, i + 1, "word", q)
           [] mode = "hash" ->
                IF TokenEnders(c) THEN BetweenTokensAt(text, i, "free", q)
                ELSE IF c = "\\" THEN BetweenTokensAt(text, i + 2, "hash", q)
                ELSE BetweenTokensAt(text, i + 1, "hash", q)
           [] mode = "int" ->
                IF is_numeric(c) THEN BetweenTokensAt(text, i + 1, "int", q)
                ELSE IF TokenEnders(c) THEN BetweenTokensAt(text, i, "free", q)
                ELSE IF c = "." THEN BetweenTokensAt(text, i + 1, "float", q)
                ELSE IF c \in {"e", "E"} THEN BetweenTokensAt(text, i + 1, "floate", q)
                ELSE IF c = "/" THEN BetweenTokensAt(text, i + 1, "rat", q)
                ELSE BetweenTokensAt(text, i + 1, "word", q)
           [] mode = "float" ->
                IF is_numeric(c) THEN BetweenTokensAt(text, i + 1, "float", q)
                ELSE IF c \in {"e", "E"} THEN BetweenTokensAt(text, i + 1, "floate", q)
                ELSE IF TokenEnders(c) THEN BetweenTokensAt(text, i, "free", q)
                ELSE BetweenTokensAt(text, i + 1, "word", q)
           [] mode \in {"floate", "rat"} ->
                IF is_numeric(c) THEN BetweenTokensAt(text, i + 1, mode, q)
                ELSE IF TokenEnders(c) THEN BetweenTokensAt(text, i, "free", q)
                ELSE BetweenTokensAt(text, i + 1, "word", q)

\* scanning on from the offending character, the scanner is between tokens
\* when it comes to the closing quote
QuoteBetweenTokens == BetweenTokensAt(source, BadAt + 1, "free", ClosingQuote)

\* a token starts at the closing quote, and it is a string
QuoteOpensString ==
    \E k \in 2..Len(emitted) :
        emitted[k].span[1] = ClosingQuoteAt /\ StartsString(emitted[k])

\* no token starts at the closing quote
QuoteOpensNothing ==
    \A k \in 2..Len(emitted) : emitted[k].span[1] # ClosingQuoteAt

NoFault == status # "panicked"

====
